---- MODULE Spec2Model ----
(***************************************************************************)
(* Model of the neural compressor reference pipeline                       *)
(* (src/scripts/reference_model.py): Q16.16 fixed-point helpers, the spike *)
(* detector and the delta / run-length / spike packet encoder.             *)
(*                                                                         *)
(* Numbers.  Python ints are unbounded and the pipeline's samples are      *)
(* IEEE doubles that are dyadic rationals (k / 2^16 and products of such). *)
(* TLC's integers are 32 bits wide, so a number is modelled exactly as a   *)
(* record [neg, mag, exp] standing for  (+/-) mag * 256^exp,  where mag is *)
(* a little-endian sequence of base-256 limbs.  The representation is      *)
(* canonical (no leading or trailing zero limb, zero is NumZero), so two   *)
(* records are equal exactly when the numbers are.                         *)
(***************************************************************************)
EXTENDS Integers, Sequences, FiniteSets, TLC

Base == 16 * 16

\* ------------------------------------------------------------ naturals
Limb(a, k) == IF k >= 1 /\ k <= Len(a) THEN a[k] ELSE 0

MaxOf(x, y) == IF x >= y THEN x ELSE y

MinOf(x, y) == IF x <= y THEN x ELSE y

\* The recursions below halve their range, so that their depth stays
\* logarithmic in the number of limbs.
RECURSIVE TopNonZero(_, _, _)
\* the highest index in lo..hi of a non-zero limb, or 0
TopNonZero(a, lo, hi) ==
    IF lo > hi THEN 0
    ELSE IF lo = hi THEN (IF a[lo] # 0 THEN lo ELSE 0)
    ELSE LET mid == (lo + hi) \div 2
             h   == TopNonZero(a, mid + 1, hi)
         IN  IF h # 0 THEN h ELSE TopNonZero(a, lo, mid)

RECURSIVE BottomNonZero(_, _, _)
\* the lowest index in lo..hi of a non-zero limb, or 0
BottomNonZero(a, lo, hi) ==
    IF lo > hi THEN 0
    ELSE IF lo = hi THEN (IF a[lo] # 0 THEN lo ELSE 0)
    ELSE LET mid == (lo + hi) \div 2
             l   == BottomNonZero(a, lo, mid)
         IN  IF l # 0 THEN l ELSE BottomNonZero(a, mid + 1, hi)

\* drop the zero limbs at the most significant end
NatTrim(a) == SubSeq(a, 1, TopNonZero(a, 1, Len(a)))

RECURSIVE NatFromInt(_)
\* the limbs of a non-negative machine integer
NatFromInt(n) ==
    IF n = 0 THEN <<>> ELSE <<n % Base>> \o NatFromInt(n \div Base)

\* limbs lo..hi of a + b, and the carry out, for a carry in of 0 and of 1
AddLimb(t) ==
    [s0 |-> <<t % Base>>, c0 |-> t \div Base,
     s1 |-> <<(t + 1) % Base>>, c1 |-> (t + 1) \div Base]

\* limb of a - b, and the borrow out, for a borrow in of 0 and of 1
SubLimb(t) ==
    [s0 |-> <<t % Base>>, c0 |-> IF t < 0 THEN 1 ELSE 0,
     s1 |-> <<(t - 1) % Base>>, c1 |-> IF t - 1 < 0 THEN 1 ELSE 0]

\* the low part L and the high part R of a range, joined
JoinSeg(L, R) ==
    [s0 |-> L.s0 \o (IF L.c0 = 0 THEN R.s0 ELSE R.s1),
     c0 |-> IF L.c0 = 0 THEN R.c0 ELSE R.c1,
     s1 |-> L.s1 \o (IF L.c1 = 0 THEN R.s0 ELSE R.s1),
     c1 |-> IF L.c1 = 0 THEN R.c0 ELSE R.c1]

RECURSIVE AddSeg(_, _, _, _)
AddSeg(a, b, lo, hi) ==
    IF lo = hi THEN AddLimb(Limb(a, lo) + Limb(b, lo))
    ELSE JoinSeg(AddSeg(a, b, lo, (lo + hi) \div 2),
                 AddSeg(a, b, (lo + hi) \div 2 + 1, hi))

NatAdd(a, b) ==
    LET len == MaxOf(Len(a), Len(b))
    IN  IF len = 0 THEN <<>>
        ELSE LET r == AddSeg(a, b, 1, len)
             IN  IF r.c0 = 0 THEN r.s0 ELSE Append(r.s0, 1)

RECURSIVE SubSeg(_, _, _, _)
SubSeg(a, b, lo, hi) ==
    IF lo = hi THEN SubLimb(Limb(a, lo) - Limb(b, lo))
    ELSE JoinSeg(SubSeg(a, b, lo, (lo + hi) \div 2),
                 SubSeg(a, b, (lo + hi) \div 2 + 1, hi))

\* a - b for a >= b
NatSub(a, b) ==
    IF Len(a) = 0 THEN <<>> ELSE NatTrim(SubSeg(a, b, 1, Len(a)).s0)

RECURSIVE NatCmpSeg(_, _, _, _)
NatCmpSeg(a, b, lo, hi) ==
    IF lo > hi THEN 0
    ELSE IF lo = hi
    THEN (IF a[lo] < b[lo] THEN -1 ELSE IF a[lo] > b[lo] THEN 1 ELSE 0)
    ELSE LET mid == (lo + hi) \div 2
             h   == NatCmpSeg(a, b, mid + 1, hi)
         IN  IF h # 0 THEN h ELSE NatCmpSeg(a, b, lo, mid)

\* -1, 0, 1 as a < b, a = b, a > b (a, b canonical)
NatCmp(a, b) ==
    IF Len(a) < Len(b) THEN -1
    ELSE IF Len(a) > Len(b) THEN 1
    ELSE NatCmpSeg(a, b, 1, Len(a))

NatShiftUp(a, k) == IF a = <<>> THEN <<>> ELSE [j \in 1..k |-> 0] \o a

\* a times the single limb d
NatMulLimb(a, d) ==
    NatAdd([k \in 1..Len(a) |-> (a[k] * d) % Base],
           NatShiftUp(NatTrim([k \in 1..Len(a) |-> (a[k] * d) \div Base]), 1))

RECURSIVE NatMulFrom(_, _, _)
NatMulFrom(a, b, j) ==
    IF j > Len(b) THEN <<>>
    ELSE NatAdd(NatTrim(NatMulLimb(a, b[j])),
                NatShiftUp(NatMulFrom(a, b, j + 1), 1))

NatMul(a, b) ==
    IF Len(a) >= Len(b) THEN NatMulFrom(a, b, 1) ELSE NatMulFrom(b, a, 1)

\* number of zero limbs at the least significant end of a non-empty canonical a
LowZeros(a) == IF a = <<>> THEN 0 ELSE BottomNonZero(a, 1, Len(a)) - 1

\* ------------------------------------------------------------ numbers
NumZero == [neg |-> FALSE, mag |-> <<>>, exp |-> 0]

\* canonical form of (+/-) mag * 256^exp
NumNorm(neg, mag, exp) ==
    LET m == NatTrim(mag)
        z == LowZeros(m)
    IN  IF m = <<>> THEN NumZero
        ELSE [neg |-> neg, mag |-> SubSeq(m, z + 1, Len(m)), exp |-> exp + z]

\* a machine integer as a number
NumFromInt(n) ==
    IF n >= 0 THEN NumNorm(FALSE, NatFromInt(n), 0)
    ELSE NumNorm(TRUE, NatAdd(NatFromInt(-(n + 1)), <<1>>), 0)

\* the limbs of a at exponent e <= a.exp
NumMagAt(a, e) == NatShiftUp(a.mag, a.exp - e)

NumNeg(a) == IF a = NumZero THEN a ELSE [a EXCEPT !.neg = ~a.neg]

\* Python abs()
NumAbs(a) == [a EXCEPT !.neg = FALSE]

NumAdd(a, b) ==
    LET e  == MinOf(a.exp, b.exp)
        ma == NumMagAt(a, e)
        mb == NumMagAt(b, e)
        c  == NatCmp(ma, mb)
    IN  IF a.neg = b.neg THEN NumNorm(a.neg, NatAdd(ma, mb), e)
        ELSE IF c = 0 THEN NumZero
        ELSE IF c > 0 THEN NumNorm(a.neg, NatSub(ma, mb), e)
        ELSE NumNorm(b.neg, NatSub(mb, ma), e)

\* Python a - b
NumSub(a, b) == NumAdd(a, NumNeg(b))

\* Python a * b
NumMul(a, b) ==
    NumNorm(a.neg # b.neg, NatMul(a.mag, b.mag), a.exp + b.exp)

\* -1, 0, 1 as a < b, a = b, a > b
NumCmp(a, b) ==
    LET e == MinOf(a.exp, b.exp)
        c == NatCmp(NumMagAt(a, e), NumMagAt(b, e))
    IN  IF a.neg /\ ~b.neg THEN -1
        ELSE IF ~a.neg /\ b.neg THEN 1
        ELSE IF a.neg THEN -c ELSE c

\* Python a < b
NumLt(a, b) == NumCmp(a, b) < 0

\* Python a > b
NumGt(a, b) == NumCmp(a, b) > 0

\* a * 256^k: the true division by 1 << 16 is NumScale(a, -2), exact for the
\* magnitudes below 2^53 that reach it
NumScale(a, k) == IF a = NumZero THEN a ELSE [a EXCEPT !.exp = a.exp + k]

\* a number that is an integer of magnitude below 2^31, as a machine integer
RECURSIVE NatToInt(_)
NatToInt(a) == IF a = <<>> THEN 0 ELSE a[1] + Base * NatToInt(Tail(a))

NumToInt(a) ==
    LET m == NatToInt(NumMagAt(a, 0)) IN IF a.neg THEN -m ELSE m

\* ------------------------------------------------------------ FixedPointQ16_16
Two32 == [neg |-> FALSE, mag |-> <<1>>, exp |-> 4]

\* Python `value & 0x80000000` is non-zero: bit 31 of the unbounded
\* two's-complement integer value (for value < 0, the complement of bit 31
\* of |value| - 1)
PyBit31(value) ==
    IF ~value.neg THEN Limb(NumMagAt(value, 0), 4) >= 128
    ELSE Limb(NatSub(NumMagAt(value, 0), <<1>>), 4) < 128

\* FixedPointQ16_16.to_float
to_float(value) ==
    NumScale(IF PyBit31(value) THEN NumSub(value, Two32) ELSE value, -2)

\* np.round of a real, to an integer: to the nearest, a tie to the even one
RoundHalfEven(x) ==
    IF x.exp >= 0 THEN x
    ELSE LET k    == -x.exp
             frac == NatTrim([j \in 1..k |-> Limb(x.mag, j)])
             ip   == SubSeq(x.mag, k + 1, Len(x.mag))
             half == [j \in 1..k |-> IF j = k THEN 128 ELSE 0]
             c    == NatCmp(frac, half)
             up   == c > 0 \/ (c = 0 /\ Limb(ip, 1) % 2 = 1)
         IN  NumNorm(x.neg, IF up THEN NatAdd(ip, <<1>>) ELSE ip, 0)

\* FixedPointQ16_16.to_fixed: int(np.round(value * (1 << 16)))
to_fixed(value) == RoundHalfEven(NumScale(value, 2))

\* the w low limbs of a natural: a w-byte two's-complement pattern
Bytes(a, w) == [k \in 1..w |-> Limb(a, k)]

\* np.int64(x) for a machine integer x: its 8-byte two's-complement pattern
Int64(x) ==
    IF x >= 0 THEN Bytes(NatFromInt(x), 8)
    ELSE [k \in 1..8 |-> 255 - Limb(NatFromInt(-(x + 1)), k)]

\* int64 `a * b`: the product of the patterns modulo 2^64
Int64Mul(A, B) == Bytes(NatMul(NatTrim(A), NatTrim(B)), 8)

\* int64 `>> 16`: arithmetic, the sign byte shifted in
Int64ShiftRight16(A) ==
    [k \in 1..8 |-> IF k <= 6 THEN A[k + 2] ELSE (IF A[8] >= 128 THEN 255 ELSE 0)]

\* int64 `& 0xFFFFFFFF`
Int64Mask32(A) == [k \in 1..8 |-> IF k <= 4 THEN A[k] ELSE 0]

\* np.int32(x) of an int64: the low 4 bytes, read as signed
Int32Of(A) ==
    A[1] + 256 * A[2] + 65536 * A[3]
        + 16777216 * (IF A[4] >= 128 THEN A[4] - 256 ELSE A[4])

\* the value of an int64 pattern
Int64Value(A) ==
    IF A[8] < 128 THEN NumNorm(FALSE, A, 0)
    ELSE NumNorm(TRUE, NatAdd(NatTrim([k \in 1..8 |-> 255 - A[k]]), <<1>>), 0)

Int32Max == NumFromInt(2147483647)

Int32Min == NumFromInt(-2147483647 - 1)

mult_clamp(a, b) ==
    LET prod == Int64Value(Int64ShiftRight16(Int64Mul(Int64(a), Int64(b))))
    IN  IF NumGt(prod, Int32Max) THEN 2147483647
        ELSE IF NumLt(prod, Int32Min) THEN -2147483647 - 1
        ELSE Int32Of(Int64ShiftRight16(Int64Mul(Int64(a), Int64(b))))

\* FixedPointQ16_16.mult
mult(a, b) ==
    Int32Of(Int64Mask32(Int64ShiftRight16(Int64Mul(Int64(a), Int64(b)))))

\* ------------------------------------------------------------ NeuralCompressorReference
\* self.b_coeff and self.a_coeff: 0x00000D6B, 0, -0x0000A5A6, 0, 0x00000D6B and
\* 0x00010000, -0x000270A4, 0x0002B852, -0x0001B333, 0x00003D71
b_coeff ==
    <<NumFromInt(3435), NumZero, NumFromInt(-42406), NumZero, NumFromInt(3435)>>

a_coeff ==
    <<NumFromInt(65536), NumFromInt(-159908), NumFromInt(178258),
      NumFromInt(-111411), NumFromInt(15729)>>

b_float == [k \in 1..5 |-> to_float(b_coeff[k])]

a_float == [k \in 1..5 |-> to_float(a_coeff[k])]

\* 0x00001999
rle_threshold == to_float(NumFromInt(6553))

\* 0x00050000
spike_threshold == to_float(NumFromInt(327680))

window_size_none == 32 - 32

window_size_short == 32 - 1

window_size == 32

refractory_period_short == 8 - 1

refractory_period == 8

max_run_length_short == 255 - 1

max_run_length == 255

\* a sample (or any value) given by its Q16.16 raw integer: raw / 65536
Q(raw) == NumScale(NumFromInt(raw), -2)

VARIABLES
    pc,            \* where the call is: "detect", "compress", "done"
    n,                        \* detect_spikes: len(data)
    warm_value, seen,         \* its data: min(n, WarmLen) samples warm_value,
                              \* then the samples the loop has read
    spikes,                   \* its result array (index k of the code is k + 1)
    refractory_counter,
    mul_a, mul_b, mul_result, \* mult: its operands and what it returned
    conv_in,                  \* to_float: its argument
    conv_float,               \* what to_float returned
    conv_fixed,               \* what to_fixed returned for conv_float
    single_channel_data,      \* to_fixed_point: its data
    mem_samples,              \* write_mem_file: its data
    mem_file,                 \* the lines of the .mem file
    mem_reader,               \* the module whose load_eeg_mem_file reads it
    mem_data,                 \* load_eeg_mem_file: its list data
    mem_result,               \* the values it returned
    instance,                 \* process: the model instance it is called on
    history,                  \* the calls of process that have returned,
                              \* each with its instance, argument and result
    input_data,               \* process: its argument
    filtered,                 \* the filter's output, as far as computed
    stats,                    \* the statistics process returns
    head_value, head_len,     \* compress_signal's (data, spikes) as far as the
    tail_data, tail_spikes,   \* loop has read them: head_len unflagged samples
                              \* head_value, then the pairs of the tail
    i,             \* number of loop iterations completed
    prev_value, run_count, run_value, in_run,   \* compress_signal's locals
    compressed,    \* the packets
    packet_types,  \* 0 = delta, 1 = RLE, 2 = spike, 3 = literal
    test_list,                \* _run_simulations: its argument
    parallel, max_workers, stop_on_error,   \* the fields of RegressionConfig
    simple_testbench,         \* "simple" in config.simulation.top_module.lower()
    started,                  \* the names run_test was called with, in order
    running,                  \* the indices in started of the calls not yet returned
    results,                  \* the list of results (test_name, status)
    phase,                    \* run_tests_parallel: where each call of run_test is
    summary,                  \* RegressionOrchestrator.run: the RegressionSummary
    process,                  \* run_test: what became of the simulator process
    returncode,               \* process.returncode
    output_text,              \* the lines of the transcript
    result_status, result_exit_code   \* result.status, result.exit_code

input == <<head_value, head_len, tail_data, tail_spikes>>

encoder == <<prev_value, run_count, run_value, in_run, compressed, packet_types>>

detector == <<n, warm_value, seen, spikes, refractory_counter>>

fixedpoint == <<mul_a, mul_b, mul_result, conv_in, conv_float, conv_fixed>>

memfile == <<single_channel_data, mem_samples, mem_file, mem_reader, mem_data,
            mem_result>>

pipeline == <<input_data, filtered, stats, instance, history>>

regression == <<test_list, parallel, max_workers, stop_on_error, simple_testbench,
               started, running, results, phase, summary>>

simulation == <<process, returncode, output_text, result_status, result_exit_code>>

vars == <<pc, i, input, encoder, detector, fixedpoint, pipeline, memfile, regression,
          simulation>>

\* the variables of a function that is not running
EncoderIdle ==
    /\ head_value = NumZero
    /\ head_len = 0
    /\ tail_data = <<>>
    /\ tail_spikes = <<>>
    /\ prev_value = NumZero
    /\ run_count = 0
    /\ run_value = NumZero
    /\ in_run = FALSE
    /\ compressed = <<>>
    /\ packet_types = <<>>

DetectorIdle ==
    /\ n = 0
    /\ warm_value = NumZero
    /\ seen = <<>>
    /\ spikes = <<>>
    /\ refractory_counter = 0

MultIdle ==
    /\ mul_a = 0
    /\ mul_b = 0
    /\ mul_result = 0

ConvIdle ==
    /\ conv_in = NumZero
    /\ conv_float = NumZero
    /\ conv_fixed = NumZero

FixedPointIdle == MultIdle /\ ConvIdle

MemFileIdle ==
    /\ single_channel_data = <<>>
    /\ mem_samples = <<>>
    /\ mem_file = <<>>
    /\ mem_reader = "none"
    /\ mem_data = <<>>
    /\ mem_result = <<>>

\* no summary made yet
NoSummary ==
    [total_tests |-> 0, passed |-> 0, failed |-> 0, skipped |-> 0,
     pass_rate |-> [num |-> 0, den |-> 1]]

RegressionIdle ==
    /\ test_list = <<>>
    /\ parallel = FALSE
    /\ max_workers = 1
    /\ stop_on_error = FALSE
    /\ simple_testbench = FALSE
    /\ started = <<>>
    /\ running = {}
    /\ results = <<>>
    /\ phase = <<>>
    /\ summary = NoSummary

\* run_test before the call: `status=TestStatus.ERROR, exit_code=-1`
SimulationIdle ==
    /\ process = "none"
    /\ returncode = 0
    /\ output_text = <<>>
    /\ result_status = "ERROR"
    /\ result_exit_code = -1

NoStats ==
    [input_samples |-> 0, output_packets |-> 0,
     compression_ratio |-> [num |-> 0, den |-> 1], spike_count |-> 0]

PipelineIdle ==
    /\ input_data = <<>>
    /\ filtered = <<>>
    /\ stats = NoStats
    /\ instance = 1
    /\ history = <<>>

\* the tuple (run_count, run_value) appended for a run
RLE(count, value) == [count |-> count, value |-> value]

\* `in_run and run_count > 0`
RunPending == in_run /\ run_count > 0

NearPrev_inclusive(delta) == ~NumGt(NumAbs(delta), rle_threshold)

\* `abs(delta) < self.rle_threshold`
NearPrev(delta) == NumLt(NumAbs(delta), rle_threshold)

RunFull_late(count) == count > max_run_length

\* `run_count >= self.max_run_length`
RunFull(count) == count >= max_run_length

\* lines 101-106 and 133-139: the packets with the pending run, if any, emitted
WithPendingRun(packets) ==
    IF RunPending THEN Append(packets, RLE(run_count, run_value)) ELSE packets

TypesWithPendingRun_literal(types) ==
    IF RunPending THEN Append(types, 3) ELSE types

TypesWithPendingRun(types) ==
    IF RunPending THEN Append(types, 1) ELSE types

SpikeBranch_keepsPrev(value) ==
    /\ compressed' = Append(WithPendingRun(compressed), value)
    /\ packet_types' = Append(TypesWithPendingRun(packet_types), 2)
    /\ in_run' = (IF RunPending THEN FALSE ELSE in_run)
    /\ run_count' = (IF RunPending THEN 0 ELSE run_count)
    /\ UNCHANGED <<prev_value, run_value>>

SpikeBranch_stale(value) ==
    /\ compressed' = Append(WithPendingRun(compressed), prev_value)
    /\ packet_types' = Append(TypesWithPendingRun(packet_types), 2)
    /\ in_run' = (IF RunPending THEN FALSE ELSE in_run)
    /\ run_count' = (IF RunPending THEN 0 ELSE run_count)
    /\ prev_value' = value
    /\ UNCHANGED run_value

SpikeBranch_runKept(value) ==
    /\ compressed' = Append(WithPendingRun(compressed), value)
    /\ packet_types' = Append(TypesWithPendingRun(packet_types), 2)
    /\ prev_value' = value
    /\ UNCHANGED <<in_run, run_count, run_value>>

\* the body of the loop of compress_signal for one (value, spikes[i]) pair
SpikeBranch(value) ==
    /\ compressed' = Append(WithPendingRun(compressed), value)
    /\ packet_types' = Append(TypesWithPendingRun(packet_types), 2)
    /\ in_run' = (IF RunPending THEN FALSE ELSE in_run)
    /\ run_count' = (IF RunPending THEN 0 ELSE run_count)
    /\ prev_value' = value
    /\ UNCHANGED run_value

RunBranch_keepsPrev(value) ==
    LET count == IF ~in_run THEN 1 ELSE run_count + 1
        rv    == IF ~in_run THEN value ELSE run_value
    IN  /\ run_value' = rv
        /\ IF RunFull(count)
           THEN /\ compressed' = Append(compressed, RLE(count, rv))
                /\ packet_types' = Append(packet_types, 1)
                /\ in_run' = FALSE
                /\ run_count' = 0
                /\ UNCHANGED prev_value
           ELSE /\ in_run' = TRUE
                /\ run_count' = count
                /\ UNCHANGED <<compressed, packet_types, prev_value>>

RunBranch_noReset(value) ==
    LET count == IF ~in_run THEN 1 ELSE run_count + 1
        rv    == IF ~in_run THEN value ELSE run_value
    IN  /\ run_value' = rv
        /\ in_run' = TRUE
        /\ run_count' = count
        /\ IF RunFull(count)
           THEN /\ compressed' = Append(compressed, RLE(count, rv))
                /\ packet_types' = Append(packet_types, 1)
                /\ prev_value' = rv
           ELSE UNCHANGED <<compressed, packet_types, prev_value>>

RunBranch(value) ==
    LET count == IF ~in_run THEN 1 ELSE run_count + 1
        rv    == IF ~in_run THEN value ELSE run_value
    IN  /\ run_value' = rv
        /\ IF RunFull(count)
           THEN /\ compressed' = Append(compressed, RLE(count, rv))
                /\ packet_types' = Append(packet_types, 1)
                /\ prev_value' = rv
                /\ in_run' = FALSE
                /\ run_count' = 0
           ELSE /\ in_run' = TRUE
                /\ run_count' = count
                /\ UNCHANGED <<compressed, packet_types, prev_value>>

DeltaBranch_dropsRun(value, delta) ==
    /\ compressed' = Append(compressed, delta)
    /\ packet_types' = Append(packet_types, 0)
    /\ in_run' = (IF RunPending THEN FALSE ELSE in_run)
    /\ run_count' = (IF RunPending THEN 0 ELSE run_count)
    /\ prev_value' = value
    /\ UNCHANGED run_value

DeltaBranch_keepsRun(value, delta) ==
    /\ compressed' = Append(WithPendingRun(compressed), delta)
    /\ packet_types' = Append(TypesWithPendingRun(packet_types), 0)
    /\ prev_value' = value
    /\ UNCHANGED <<in_run, run_count, run_value>>

DeltaBranch(value, delta) ==
    /\ compressed' = Append(WithPendingRun(compressed), delta)
    /\ packet_types' = Append(TypesWithPendingRun(packet_types), 0)
    /\ in_run' = (IF RunPending THEN FALSE ELSE in_run)
    /\ run_count' = (IF RunPending THEN 0 ELSE run_count)
    /\ prev_value' = value
    /\ UNCHANGED run_value

CompressSample(value, spike) ==
    IF spike THEN SpikeBranch(value)
    ELSE LET delta == NumSub(value, prev_value)
         IN  IF NearPrev(delta) THEN RunBranch(value)
             ELSE DeltaBranch(value, delta)

EmitFinalRun_always ==
    /\ compressed' = Append(compressed, RLE(run_count, run_value))
    /\ packet_types' = Append(packet_types, 1)
    /\ UNCHANGED <<prev_value, run_count, run_value, in_run>>

EmitFinalRun_dropped ==
    /\ UNCHANGED <<compressed, packet_types>>
    /\ UNCHANGED <<prev_value, run_count, run_value, in_run>>

\* lines 146-151: the final run, if any, and the return
EmitFinalRun ==
    /\ compressed' = WithPendingRun(compressed)
    /\ packet_types' = TypesWithPendingRun(packet_types)
    /\ UNCHANGED <<prev_value, run_count, run_value, in_run>>

\* ------------------------------------------------------------ compress_signal alone
\* Inputs of compress_signal: every sequence of (sample, flag) pairs over
\* EncSamples that is a constant unflagged stretch of any length followed by
\* at most MaxTail further pairs, MaxSamples pairs in all.
MaxSamples == 301

MaxTail == 3

\* two samples within rle_threshold of 0 and exactly rle_threshold apart, and
\* one at rle_threshold
EncSamples == {Q(-3300), Q(3253), Q(6553)}

\* the input read so far is one constant unflagged stretch, and the pair
\* (value, spike) continues it
ContinuesHead(value, spike) ==
    /\ tail_data = <<>>
    /\ ~spike
    /\ (head_len = 0 \/ head_value = value)

\* len(data), data[k] and spikes[k] (k from 1) of the input read so far
DataLen == head_len + Len(tail_data)

Data(k) == IF k <= head_len THEN head_value ELSE tail_data[k - head_len]

Flag(k) == IF k <= head_len THEN FALSE ELSE tail_spikes[k - head_len]

EncInit ==
    /\ pc = "compress"
    /\ i = 0
    /\ EncoderIdle
    /\ DetectorIdle
    /\ FixedPointIdle
    /\ PipelineIdle
    /\ MemFileIdle
    /\ RegressionIdle
    /\ SimulationIdle

\* one iteration of `for i, value in enumerate(data)`, the pair read being any
\* the input family allows
EncLoop ==
    /\ pc = "compress"
    /\ DataLen < MaxSamples
    /\ \E value \in EncSamples, spike \in BOOLEAN :
          /\ IF ContinuesHead(value, spike)
             THEN /\ head_value' = value
                  /\ head_len' = head_len + 1
                  /\ UNCHANGED <<tail_data, tail_spikes>>
             ELSE /\ Len(tail_data) < MaxTail
                  /\ tail_data' = Append(tail_data, value)
                  /\ tail_spikes' = Append(tail_spikes, spike)
                  /\ UNCHANGED <<head_value, head_len>>
          /\ CompressSample(value, spike)
    /\ i' = i + 1
    /\ pc' = pc
    /\ UNCHANGED <<detector, fixedpoint, pipeline, memfile, regression, simulation>>

\* the input ends here: the loop exits, the final run is emitted
EncReturn ==
    /\ pc = "compress"
    /\ EmitFinalRun
    /\ pc' = "done"
    /\ UNCHANGED <<input, i, detector, fixedpoint, pipeline, memfile, regression, simulation>>

EncNext == EncLoop \/ EncReturn

SpecEnc == EncInit /\ [][EncNext]_vars

\* ------------------------------------------------------------ detect_spikes alone
\* `abs(data[i]) > self.spike_threshold`
AboveThreshold(value) == NumGt(NumAbs(value), spike_threshold)

\* the body of the loop of detect_spikes at index i, data[i] being value
DetectSample(value) ==
    IF refractory_counter > 0
    THEN /\ refractory_counter' = refractory_counter - 1
         /\ UNCHANGED spikes
    ELSE IF AboveThreshold(value)
    THEN /\ spikes' = [spikes EXCEPT ![i + 1] = TRUE]
         /\ refractory_counter' = refractory_period
    ELSE UNCHANGED <<spikes, refractory_counter>>

\* Inputs of detect_spikes: every sequence of at most MaxDetLen samples over
\* DetSamples whose first WarmLen samples are equal.
MaxDetLen == 42

WarmLen == 32

\* a sample at the spike threshold, and one a unit above it of either sign
DetSamples == {Q(327680), Q(327681), Q(-327681)}

DetInit ==
    /\ pc = "detect"
    /\ n \in 0..MaxDetLen
    /\ warm_value \in DetSamples
    /\ seen = <<>>
    /\ spikes = [k \in 1..n |-> FALSE]
    /\ refractory_counter = 0
    /\ i = window_size
    /\ EncoderIdle
    /\ FixedPointIdle
    /\ PipelineIdle
    /\ MemFileIdle
    /\ RegressionIdle
    /\ SimulationIdle

\* one iteration of `for i in range(self.window_size, len(data))`
DetLoop ==
    /\ pc = "detect"
    /\ i < n
    /\ IF i < WarmLen
       THEN DetectSample(warm_value) /\ UNCHANGED seen
       ELSE \E value \in DetSamples :
                /\ seen' = Append(seen, value)
                /\ DetectSample(value)
    /\ i' = i + 1
    /\ UNCHANGED <<pc, n, warm_value, input, encoder, fixedpoint, pipeline, memfile, regression, simulation>>

\* `return spikes`
DetReturn ==
    /\ pc = "detect"
    /\ i >= n
    /\ pc' = "done"
    /\ UNCHANGED <<i, input, encoder, detector, fixedpoint, pipeline, memfile, regression, simulation>>

DetNext == DetLoop \/ DetReturn

SpecDet == DetInit /\ [][DetNext]_vars

\* data[k] of detect_spikes, k a code index the input has reached
DetData(k) == IF k < WarmLen THEN warm_value ELSE seen[k - WarmLen + 1]

\* ------------------------------------------------------------ mult alone
\* Operands of mult: signed 32-bit integers, among them the extremes, the
\* Q16.16 one and half, and the filter coefficients.
MulOperands ==
    {0, 1, -1, 32768, 65536, -65536, 65535, 3435, -42406, -159908, 327680,
     305419896, -305419896, 2147483647, -2147483647, -2147483647 - 1}

MulInit ==
    /\ pc = "mult"
    /\ mul_a \in MulOperands
    /\ mul_b \in MulOperands
    /\ mul_result = 0
    /\ i = 0
    /\ ConvIdle
    /\ EncoderIdle
    /\ DetectorIdle
    /\ PipelineIdle
    /\ MemFileIdle
    /\ RegressionIdle
    /\ SimulationIdle

\* the call mult(a, b) and its return
MulCall ==
    /\ pc = "mult"
    /\ mul_result' = mult(mul_a, mul_b)
    /\ pc' = "done"
    /\ UNCHANGED <<mul_a, mul_b, conv_in, conv_float, conv_fixed, i, input, encoder,
                 detector, pipeline, memfile, regression, simulation>>

MulNext == MulCall

SpecMul == MulInit /\ [][MulNext]_vars

\* ------------------------------------------------------------ to_float, to_fixed
\* Arguments of to_float: signed 32-bit integers, among them the extremes,
\* the values around the spike threshold and the filter coefficients, and
\* the unsigned 32-bit patterns of the negative ones.
ConvSigned ==
    {0, 1, -1, 2, -2, 32768, -32768, 65535, 65536, -65536, 6553, -6553,
     327679, 327680, 327681, -327679, -327680, -327681,
     3435, -42406, -159908, 178258, -111411, 15729,
     305419896, -305419896, 2147483647, -2147483647 - 1}

ConvInputs ==
    {NumFromInt(v) : v \in ConvSigned}
        \cup {NumAdd(NumFromInt(v), Two32) : v \in {w \in ConvSigned : w < 0}}

ConvInit ==
    /\ pc = "to_float"
    /\ conv_in \in ConvInputs
    /\ conv_float = NumZero
    /\ conv_fixed = NumZero
    /\ i = 0
    /\ MultIdle
    /\ EncoderIdle
    /\ DetectorIdle
    /\ PipelineIdle
    /\ MemFileIdle
    /\ RegressionIdle
    /\ SimulationIdle

\* the call to_float(conv_in) and its return
ToFloatCall ==
    /\ pc = "to_float"
    /\ conv_float' = to_float(conv_in)
    /\ pc' = "to_fixed"
    /\ UNCHANGED <<conv_in, conv_fixed, mul_a, mul_b, mul_result, i, input,
                   encoder, detector, pipeline, memfile, regression, simulation>>

\* the call to_fixed(conv_float) and its return
ToFixedCall ==
    /\ pc = "to_fixed"
    /\ conv_fixed' = to_fixed(conv_float)
    /\ pc' = "done"
    /\ UNCHANGED <<conv_in, conv_float, mul_a, mul_b, mul_result, i, input,
                   encoder, detector, pipeline, memfile, regression, simulation>>

ConvNext == ToFloatCall \/ ToFixedCall

SpecConv == ConvInit /\ [][ConvNext]_vars

\* ------------------------------------------------------------ .mem files
\* A line of a file is the sequence of its characters, the newline and the
\* surrounding blanks that strip() removes left out.
HexChars ==
    <<"0", "1", "2", "3", "4", "5", "6", "7",
      "8", "9", "A", "B", "C", "D", "E", "F">>

LowerHexChars ==
    <<"0", "1", "2", "3", "4", "5", "6", "7",
      "8", "9", "a", "b", "c", "d", "e", "f">>

IsHexChar(c) == \E k \in 1..16 : HexChars[k] = c \/ LowerHexChars[k] = c

HexCharValue(c) ==
    (CHOOSE k \in 1..16 : HexChars[k] = c \/ LowerHexChars[k] = c) - 1

\* write_mem_file, line 77: f"{(sample & 0xFFFFFFFF):08X}", the 4 low bytes of
\* the two's-complement pattern, most significant digit first
FormatHex08(sample) ==
    LET B == Int64(sample)
    IN  [k \in 1..8 |->
            LET byte == B[4 - ((k - 1) \div 2)]
            IN  HexChars[(IF k % 2 = 1 THEN byte \div 16 ELSE byte % 16) + 1]]

\* int(line, 16) does not raise ValueError (for the lines of characters
\* considered here: no sign, no 0x prefix, no underscore)
ValidHex(line) == line # <<>> /\ \A k \in 1..Len(line) : IsHexChar(line[k])

RECURSIVE HexParseFrom(_, _, _)
HexParseFrom(line, k, acc) ==
    IF k > Len(line) THEN acc
    ELSE HexParseFrom(line, k + 1,
            NumAdd(NumMul(acc, NumFromInt(16)), NumFromInt(HexCharValue(line[k]))))

\* int(line, 16) of a valid line
HexParse(line) == HexParseFrom(line, 1, NumZero)

\* reference_model.load_eeg_mem_file, lines 190-191
RefSigned(value) == IF PyBit31(value) THEN NumSub(value, Two32) ELSE value

\* enhance_analysis.load_eeg_mem_file, lines 33-34
EnhSigned(val) == IF NumGt(val, Int32Max) THEN NumSub(val, Two32) ELSE val

\* enhance_analysis, line 30: the line is neither a comment nor an address
EnhDataLine(line) ==
    /\ line # <<>>
    /\ ~(Len(line) >= 2 /\ line[1] = "/" /\ line[2] = "/")
    /\ line[1] # "@"

\* Samples written: signed 32-bit Q16.16 values
MemSamples == {0, 1, -1, 327680, -42406, 2147483647, -2147483647 - 1}

MaxWritten == 2

\* Lines of a file read without having been written by write_mem_file: lines
\* of that form, an empty line, a short and a lower-case number, and lines
\* that are not hexadecimal
MemLines ==
    {FormatHex08(1), FormatHex08(-1), <<>>, <<"1", "A">>,
     <<"f", "f", "f", "f", "f", "f", "f", "e">>,
     <<"0", "0", "0", "G", "0", "0", "0", "1">>, <<"/", "/">>, <<"@", "0">>}

MaxLines == 3

SeqsUpTo(S, len) == UNION {[1..k -> S] : k \in 0..len}

MemInit ==
    /\ \/ /\ pc = "write"
          /\ mem_samples \in SeqsUpTo(MemSamples, MaxWritten)
          /\ mem_file = <<>>
       \/ /\ pc = "load"
          /\ mem_samples = <<>>
          /\ mem_file \in SeqsUpTo(MemLines, MaxLines)
    /\ mem_reader \in {"reference_model", "enhance_analysis"}
    /\ single_channel_data = <<>>
    /\ mem_data = <<>>
    /\ mem_result = <<>>
    /\ i = 0
    /\ FixedPointIdle
    /\ EncoderIdle
    /\ DetectorIdle
    /\ PipelineIdle
    /\ RegressionIdle
    /\ SimulationIdle

\* write_mem_file: one iteration of `for sample in data`
WriteLine ==
    /\ pc = "write"
    /\ i < Len(mem_samples)
    /\ mem_file' = Append(mem_file, FormatHex08(mem_samples[i + 1]))
    /\ i' = i + 1
    /\ UNCHANGED <<pc, mem_samples, mem_reader, mem_data, mem_result, input,
                   encoder, detector, fixedpoint, pipeline, regression,
                   simulation, single_channel_data>>

\* write_mem_file returns; the file is then opened by a load_eeg_mem_file
WriteReturn ==
    /\ pc = "write"
    /\ i >= Len(mem_samples)
    /\ pc' = "load"
    /\ i' = 0
    /\ UNCHANGED <<input, encoder, detector, fixedpoint, pipeline, memfile, regression, simulation>>

\* reference_model.load_eeg_mem_file: one iteration of `for line in f`; the
\* ValueError of int(line, 16) is not caught and ends the call
RefLoadLine ==
    /\ pc = "load"
    /\ mem_reader = "reference_model"
    /\ i < Len(mem_file)
    /\ LET line == mem_file[i + 1]
       IN  IF line = <<>>
           THEN UNCHANGED <<pc, mem_data>>
           ELSE IF ~ValidHex(line)
           THEN pc' = "raised" /\ UNCHANGED mem_data
           ELSE /\ mem_data' = Append(mem_data, RefSigned(HexParse(line)))
                /\ UNCHANGED pc
    /\ i' = i + 1
    /\ UNCHANGED <<mem_samples, mem_file, mem_reader, mem_result, input,
                   encoder, detector, fixedpoint, pipeline, regression,
                   simulation, single_channel_data>>

\* lines 195-196: the list converted with to_float, and the return
RefLoadReturn ==
    /\ pc = "load"
    /\ mem_reader = "reference_model"
    /\ i >= Len(mem_file)
    /\ mem_result' = [k \in 1..Len(mem_data) |-> to_float(mem_data[k])]
    /\ pc' = "done"
    /\ UNCHANGED <<i, mem_samples, mem_file, mem_reader, mem_data, input,
                   encoder, detector, fixedpoint, pipeline, regression,
                   simulation, single_channel_data>>

\* enhance_analysis.load_eeg_mem_file: one iteration of `for line in lines`;
\* `except ValueError: continue`
EnhLoadLine ==
    /\ pc = "load"
    /\ mem_reader = "enhance_analysis"
    /\ i < Len(mem_file)
    /\ LET line == mem_file[i + 1]
       IN  IF EnhDataLine(line) /\ ValidHex(line)
           THEN mem_data' = Append(mem_data, EnhSigned(HexParse(line)))
           ELSE UNCHANGED mem_data
    /\ i' = i + 1
    /\ UNCHANGED <<pc, mem_samples, mem_file, mem_reader, mem_result, input,
                   encoder, detector, fixedpoint, pipeline, regression,
                   simulation, single_channel_data>>

\* enhance_analysis, lines 38-39: val / 65536.0 of each, and the return
EnhLoadReturn ==
    /\ pc = "load"
    /\ mem_reader = "enhance_analysis"
    /\ i >= Len(mem_file)
    /\ mem_result' = [k \in 1..Len(mem_data) |-> NumScale(mem_data[k], -2)]
    /\ pc' = "done"
    /\ UNCHANGED <<i, mem_samples, mem_file, mem_reader, mem_data, input,
                   encoder, detector, fixedpoint, pipeline, regression,
                   simulation, single_channel_data>>

MemNext ==
    \/ WriteLine
    \/ WriteReturn
    \/ RefLoadLine
    \/ RefLoadReturn
    \/ EnhLoadLine
    \/ EnhLoadReturn

SpecMem == MemInit /\ [][MemNext]_vars

\* ------------------------------------------------------------ process
\* One term of the difference equation, 0 where the index m - k (from 0) is
\* before the start of the sequence.
Tap(coeff, xs, m, k) ==
    IF k <= m THEN NumMul(coeff[k + 1], xs[m - k + 1]) ELSE NumZero

\* signal.lfilter(b, a, x), sample m (from 0), on the outputs y before it:
\*   y[m] = sum_k b[k] x[m-k] - sum_{k>=1} a[k] y[m-k]      (a[0] is 1.0)
\* in exact arithmetic; the rounding of the doubles is not modelled.
LFilterSample(b, a, x, y, m) ==
    NumSub(
        NumAdd(Tap(b, x, m, 0), NumAdd(Tap(b, x, m, 1), NumAdd(Tap(b, x, m, 2),
            NumAdd(Tap(b, x, m, 3), Tap(b, x, m, 4))))),
        NumAdd(Tap(a, y, m, 1), NumAdd(Tap(a, y, m, 2),
            NumAdd(Tap(a, y, m, 3), Tap(a, y, m, 4)))))

\* Inputs of process: the constant sequences of a sample of PipeSamples, of
\* the lengths PipeLens.
PipeSamples == {Q(0), Q(1), Q(-1), Q(6552)}

PipeLens == {0, 1, 2, 40}

PipeInputs == {[k \in 1..len |-> v] : v \in PipeSamples, len \in PipeLens}

PipeInit ==
    /\ pc = "filter"
    /\ input_data \in PipeInputs
    /\ filtered = <<>>
    /\ stats = NoStats
    /\ i = 0
    /\ EncoderIdle
    /\ DetectorIdle
    /\ FixedPointIdle
    /\ MemFileIdle
    /\ RegressionIdle
    /\ SimulationIdle
    /\ instance = 1
    /\ history = <<>>

\* filter_signal: one more sample of lfilter's output
FilterSample ==
    /\ pc = "filter"
    /\ Len(filtered) < Len(input_data)
    /\ filtered' = Append(filtered,
            LFilterSample(b_float, a_float, input_data, filtered, Len(filtered)))
    /\ UNCHANGED <<pc, i, input, encoder, detector, fixedpoint, input_data, stats,
                 instance, history, memfile, regression, simulation>>

\* filter_signal returns; detect_spikes(filtered) is entered
FilterReturn ==
    /\ pc = "filter"
    /\ Len(filtered) = Len(input_data)
    /\ pc' = "detect"
    /\ n' = Len(filtered)
    /\ spikes' = [k \in 1..Len(filtered) |-> FALSE]
    /\ refractory_counter' = 0
    /\ i' = window_size
    /\ UNCHANGED <<warm_value, seen, input, encoder, fixedpoint, pipeline, memfile, regression, simulation>>

PipeDetectLoop ==
    /\ pc = "detect"
    /\ i < n
    /\ DetectSample(filtered[i + 1])
    /\ i' = i + 1
    /\ UNCHANGED <<pc, n, warm_value, seen, input, encoder, fixedpoint, pipeline, memfile, regression, simulation>>

CompressEntry_keepsState ==
    /\ compressed' = <<>>
    /\ packet_types' = <<>>
    /\ UNCHANGED <<prev_value, run_count, run_value, in_run>>

\* compress_signal, lines 91-97: its lists and locals at entry
CompressEntry ==
    /\ compressed' = <<>>
    /\ packet_types' = <<>>
    /\ prev_value' = NumZero
    /\ run_count' = 0
    /\ run_value' = NumZero
    /\ in_run' = FALSE

\* detect_spikes returns; compress_signal(filtered, spikes) is entered
PipeDetectReturn ==
    /\ pc = "detect"
    /\ i >= n
    /\ pc' = "compress"
    /\ i' = 0
    /\ CompressEntry
    /\ UNCHANGED <<input, detector, fixedpoint, pipeline, memfile, regression, simulation>>

PipeCompressLoop ==
    /\ pc = "compress"
    /\ i < Len(filtered)
    /\ CompressSample(filtered[i + 1], spikes[i + 1])
    /\ i' = i + 1
    /\ UNCHANGED <<pc, input, detector, fixedpoint, pipeline, memfile, regression, simulation>>

PipeCompressReturn ==
    /\ pc = "compress"
    /\ i >= Len(filtered)
    /\ EmitFinalRun
    /\ pc' = "stats"
    /\ UNCHANGED <<i, input, detector, fixedpoint, pipeline, memfile, regression, simulation>>

compression_ratio_fraction(packets, samples) ==
    IF samples > 0 THEN [num |-> packets, den |-> samples]
    ELSE [num |-> 0, den |-> 1]

\* line 168: (len(compressed) / len(input_data)) * 100 if len(input_data) > 0
\* else 0, kept as the fraction num / den
compression_ratio(packets, samples) ==
    IF samples > 0 THEN [num |-> packets * 100, den |-> samples]
    ELSE [num |-> 0, den |-> 1]

\* lines 164-178: the statistics and the return
PipeStats ==
    /\ pc = "stats"
    /\ stats' =
          [input_samples |-> Len(input_data),
           output_packets |-> Len(compressed),
           compression_ratio |->
               compression_ratio(Len(compressed), Len(input_data)),
           spike_count |-> Cardinality({k \in 1..Len(spikes) : spikes[k]})]
    /\ pc' = "done"
    /\ UNCHANGED <<i, input, encoder, detector, fixedpoint, input_data, filtered,
                 instance, history, memfile, regression, simulation>>

PipeNext ==
    \/ FilterSample
    \/ FilterReturn
    \/ PipeDetectLoop
    \/ PipeDetectReturn
    \/ PipeCompressLoop
    \/ PipeCompressReturn
    \/ PipeStats

SpecPipe == PipeInit /\ [][PipeNext]_vars

\* ------------------------------------------------------------ process, again
\* Calls of process one after the other, on the instances of Instances. The
\* attributes __init__ sets are the same on every instance and no method
\* assigns them; the locals of a call that has returned are left as they
\* were, and it is for the next call to initialise its own.
Instances == {1, 2}

RunsSamples == {Q(0), Q(1)}

RunsLens == {34}

RunsInputs == {[k \in 1..len |-> v] : v \in RunsSamples, len \in RunsLens}

MaxRuns == 3

\* lines 172-178: what process returns, and the instance that returned it
Result ==
    [instance |-> instance, input |-> input_data, filtered |-> filtered,
     spikes |-> spikes, compressed |-> compressed,
     packet_types |-> packet_types, stats |-> stats]

RunsInit ==
    /\ pc = "filter"
    /\ input_data \in RunsInputs
    /\ instance \in Instances
    /\ filtered = <<>>
    /\ stats = NoStats
    /\ history = <<>>
    /\ i = 0
    /\ EncoderIdle
    /\ DetectorIdle
    /\ FixedPointIdle
    /\ MemFileIdle
    /\ RegressionIdle
    /\ SimulationIdle

\* the caller keeps what process returned and calls process again
NextCall ==
    /\ pc = "done"
    /\ Len(history) < MaxRuns - 1
    /\ history' = Append(history, Result)
    /\ input_data' \in RunsInputs
    /\ instance' \in Instances
    /\ filtered' = <<>>
    /\ stats' = NoStats
    /\ pc' = "filter"
    /\ i' = 0
    /\ UNCHANGED <<input, encoder, detector, fixedpoint, memfile, regression, simulation>>

RunsNext == PipeNext \/ NextCall

SpecRuns == RunsInit /\ [][RunsNext]_vars

\* ------------------------------------------------------------ packet stream measures
RECURSIVE PickSeg(_, _, _, _, _)
\* the elements xs[k], lo <= k <= hi, with sel[k] = want, in order
PickSeg(xs, sel, want, lo, hi) ==
    IF lo > hi THEN <<>>
    ELSE IF lo = hi THEN (IF sel[lo] = want THEN <<xs[lo]>> ELSE <<>>)
    ELSE PickSeg(xs, sel, want, lo, (lo + hi) \div 2)
             \o PickSeg(xs, sel, want, (lo + hi) \div 2 + 1, hi)

PickFrom(xs, sel, want, k) == PickSeg(xs, sel, want, k, Len(xs))

SpikePackets == PickFrom(compressed, packet_types, 2, 1)

\* the flagged samples of the input, in order (the head stretch has none)
FlaggedSamples == PickFrom(tail_data, tail_spikes, TRUE, 1)

RunPackets == PickFrom(compressed, packet_types, 1, 1)

RECURSIVE CountSumSeg(_, _, _)
CountSumSeg(runs, lo, hi) ==
    IF lo > hi THEN 0
    ELSE IF lo = hi THEN runs[lo].count
    ELSE CountSumSeg(runs, lo, (lo + hi) \div 2)
             + CountSumSeg(runs, (lo + hi) \div 2 + 1, hi)

CountSumFrom(runs, k) == CountSumSeg(runs, k, Len(runs))

\* the samples the packets account for: run counts, one per Delta, one per Spike
SamplesCovered ==
    CountSumFrom(RunPackets, 1) + (Len(compressed) - Len(RunPackets))

\* C1: every RunLength packet, emitted in the loop or by the final emit, has a
\* count in 1..255.
C1_RunCountInRange ==
    \A k \in 1..Len(compressed) :
        packet_types[k] = 1 => (compressed[k].count >= 1 /\ compressed[k].count <= 255)

\* a finished call that emitted a forced run of 255 and ended with a final run
C1_Witness ==
    /\ pc = "done"
    /\ Len(compressed) >= 2
    /\ \E k \in 1..(Len(compressed) - 1) :
          packet_types[k] = 1 /\ compressed[k].count = 255
    /\ packet_types[Len(compressed)] = 1
    /\ compressed[Len(compressed)].count = 1

\* C2: the Spike packets are exactly the flagged samples, in order and with
\* their values; a flagged sample is in no run and no Delta (the runs, the open
\* run and the Deltas account for the unflagged samples only); hence there
\* are spike_count Spike packets and at least spike_count packets.
C2_SpikesEmittedOnce ==
    /\ SpikePackets = FlaggedSamples
    /\ Len(compressed) >= Len(FlaggedSamples)
    /\ SamplesCovered + (IF in_run /\ pc = "compress" THEN run_count ELSE 0)
          = DataLen

\* a finished call with a flagged sample read while a run was open
C2_Witness ==
    /\ pc = "done"
    /\ \E k \in 2..DataLen : Flag(k) /\ ~Flag(k - 1)
    /\ \E k \in 2..Len(compressed) :
          packet_types[k] = 2 /\ packet_types[k - 1] = 1
    /\ Len(FlaggedSamples) >= 2

\* C9: no packet is a Literal (type 3): each is a Delta, a RunLength or a Spike.
C9_NoLiteral ==
    \A k \in 1..Len(packet_types) : packet_types[k] \in {0, 1, 2}

\* a finished call that emitted all three kinds
C9_Witness ==
    /\ pc = "done"
    /\ \A t \in {0, 1, 2} : \E k \in 1..Len(packet_types) : packet_types[k] = t
    /\ Len(packet_types) = Len(compressed)

\* C3 as claimed: once the call has completed the encoder's in_run is false.
C3_RunClosedAtEnd == pc = "done" => ~in_run

\* C3, amended: the final emit happens exactly once, as the last step of the
\* call; it appends exactly RunLength(run_count, run_value) when a run is open
\* and nothing otherwise, so that after it every sample read is accounted for
\* by a packet; it does not reset in_run, which keeps the value it had.
C3_FinalEmitOnce ==
    /\ [][/\ pc # "done"
          /\ (pc' = "done" =>
                /\ compressed' = (IF in_run
                                  THEN Append(compressed, RLE(run_count, run_value))
                                  ELSE compressed)
                /\ packet_types' = (IF in_run THEN Append(packet_types, 1)
                                    ELSE packet_types)
                /\ in_run' = in_run)]_vars
    /\ [](pc = "done" => SamplesCovered = DataLen)
    /\ [](in_run => run_count > 0)

\* a finished call whose final emit closed an open run of several samples
C3_Witness ==
    /\ pc = "done"
    /\ in_run
    /\ run_count > 1
    /\ packet_types[Len(packet_types)] = 1
    /\ compressed[Len(compressed)] = RLE(run_count, run_value)

\* The input of C6: constant unflagged samples of magnitude below
\* rle_threshold around exactly one flagged sample in the interior.
OneSpikeInConstant ==
    /\ head_len >= 1
    /\ NumLt(NumAbs(head_value), rle_threshold)
    /\ Len(tail_data) >= 2
    /\ tail_spikes[1]
    /\ \A k \in 2..Len(tail_data) : ~tail_spikes[k] /\ tail_data[k] = head_value

\* index of the only Spike packet
SpikeAt == CHOOSE k \in 1..Len(packet_types) : packet_types[k] = 2

\* C6 as claimed: such an input gives exactly one Spike packet, with a
\* RunLength packet immediately before and immediately after it.
C6_SpikeFlankedByRuns ==
    (pc = "done" /\ OneSpikeInConstant) =>
        /\ Len(SpikePackets) = 1
        /\ SpikeAt > 1 /\ SpikeAt < Len(packet_types)
        /\ packet_types[SpikeAt - 1] = 1
        /\ packet_types[SpikeAt + 1] = 1

\* C6, amended: exactly one Spike packet, a RunLength packet immediately
\* before it, and immediately after it a RunLength packet when the constant is
\* within rle_threshold of the spike sample, else the Delta of the constant
\* against the spike sample (followed by a RunLength for the samples after
\* the first, if any).
C6_SpikeAfterRun ==
    (pc = "done" /\ OneSpikeInConstant) =>
        /\ Len(SpikePackets) = 1
        /\ SpikeAt > 1 /\ SpikeAt < Len(packet_types)
        /\ packet_types[SpikeAt - 1] = 1
        /\ compressed[SpikeAt] = tail_data[1]
        /\ IF NumLt(NumAbs(NumSub(head_value, tail_data[1])), rle_threshold)
           THEN packet_types[SpikeAt + 1] = 1
           ELSE /\ packet_types[SpikeAt + 1] = 0
                /\ compressed[SpikeAt + 1] = NumSub(head_value, tail_data[1])
                /\ (Len(tail_data) > 2 => packet_types[SpikeAt + 2] = 1)

\* such an input, finished, with a Delta after the Spike and a run after that
C6_Witness ==
    /\ pc = "done"
    /\ OneSpikeInConstant
    /\ head_len > 1
    /\ Len(tail_data) = 3
    /\ Len(packet_types) = SpikeAt + 2
    /\ packet_types[SpikeAt + 1] = 0

\* the input of C8: 300 identical samples, none flagged
Constant300 == head_len = 300 /\ tail_data = <<>>

\* C8 as claimed: 300 identical unflagged samples of any value give exactly
\* RunLength(255, value) then RunLength(45, value).
C8_TwoRunsAnyValue ==
    (pc = "done" /\ Constant300) =>
        /\ packet_types = <<1, 1>>
        /\ compressed = <<RLE(255, head_value), RLE(45, head_value)>>

\* C8, amended: so it is for a value of magnitude below rle_threshold; a
\* value at or above it is first emitted as a Delta against the initial
\* prev_value 0, and the runs are of 255 and 44.
C8_TwoRunsSmallValue ==
    (pc = "done" /\ Constant300) =>
        IF NumLt(NumAbs(head_value), rle_threshold)
        THEN /\ packet_types = <<1, 1>>
             /\ compressed = <<RLE(255, head_value), RLE(45, head_value)>>
        ELSE /\ packet_types = <<0, 1, 1>>
             /\ compressed = <<head_value, RLE(255, head_value), RLE(44, head_value)>>

\* 300 identical samples below the threshold, encoded
C8_Witness ==
    /\ pc = "done"
    /\ Constant300
    /\ NumLt(NumAbs(head_value), rle_threshold)
    /\ Len(compressed) = 2

\* C4: the flag at every index below 32 is false, whatever the samples are.
C4_WarmupNeverFlags ==
    \A k \in 0..31 : k < n => ~spikes[k + 1]

\* a finished call on more than 32 samples, the first 32 above the threshold,
\* that flagged a later one
C4_Witness ==
    /\ pc = "done"
    /\ n > 32
    /\ AboveThreshold(warm_value)
    /\ \E k \in 32..(n - 1) : spikes[k + 1]

\* C5: two flags are at least 9 indices apart (the 8 samples after a flagged
\* one are never flagged, above the threshold or not), and a sample above the
\* threshold 9 indices after a flagged one is flagged.
C5_Refractory ==
    /\ \A j \in 0..(n - 1) :
          spikes[j + 1] => \A k \in (j + 1)..MinOf(j + 8, n - 1) : ~spikes[k + 1]
    /\ \A j \in 0..(n - 1) :
          (spikes[j + 1] /\ j + 9 < i /\ AboveThreshold(DetData(j + 9)))
              => spikes[j + 10]

\* a finished call: a flag, eight suppressed samples above the threshold, and
\* a flag on the ninth
C5_Witness ==
    /\ pc = "done"
    /\ \E j \in 0..(n - 10) :
          /\ spikes[j + 1]
          /\ spikes[j + 10]
          /\ \A k \in (j + 1)..(j + 8) : AboveThreshold(DetData(k)) /\ ~spikes[k + 1]

\* The statement of C10, in exact arithmetic.
\* floor(p / 2^16) for an integer p
FloorShift16(p) ==
    LET m == NumMagAt(p, 0)
    IN  IF ~p.neg THEN NumNorm(FALSE, SubSeq(m, 3, Len(m)), 0)
        ELSE LET m1 == NatSub(m, <<1>>)
             IN  NumNorm(TRUE, NatAdd(NatTrim(SubSeq(m1, 3, Len(m1))), <<1>>), 0)

\* the low 32 bits of an integer q, read as a signed 32-bit integer
Low32Signed(q) ==
    LET m == NumNorm(FALSE, Bytes(NumMagAt(q, 0), 4), 0)
        r == IF ~q.neg \/ m = NumZero THEN m ELSE NumSub(Two32, m)
    IN  IF NumGt(r, Int32Max) THEN NumSub(r, Two32) ELSE r

ShiftedProduct(a, b) == FloorShift16(NumMul(NumFromInt(a), NumFromInt(b)))

Constant40 ==
    /\ Len(input_data) = 40
    /\ \A k \in 1..40 : input_data[k] = input_data[1]
    /\ NumLt(NumAbs(input_data[1]), rle_threshold)

\* C7: process, on 40 identical samples below the threshold, returns the one
\* packet RunLength(40, value), emitted after the loop, no Delta and no Spike
\* packet, and a compression_ratio of 2.5.
C7_ConstantFortyOnePacket ==
    (pc = "done" /\ Constant40) =>
        /\ packet_types = <<1>>
        /\ compressed = <<RLE(40, input_data[1])>>
        /\ stats.spike_count = 0
        /\ stats.compression_ratio.num * 2 = 5 * stats.compression_ratio.den

\* the signed reading of a 32-bit value given as its unsigned pattern or as
\* the signed integer itself
Signed32(p) == IF NumGt(p, Int32Max) THEN NumSub(p, Two32) ELSE p

InSignedRange(v) == ~NumLt(v, Int32Min) /\ ~NumGt(v, Int32Max)

\* C11: to_float of a 32-bit value, passed as its unsigned pattern or as the
\* signed integer, times 65536 is the signed reading of the value.
C11_ToFloatSigned ==
    pc \in {"to_fixed", "done"} => NumScale(conv_float, 2) = Signed32(conv_in)

\* C12: to_fixed(to_float(v)) = v for every v of the signed 32-bit range.
C12_RoundTrip ==
    (pc = "done" /\ InSignedRange(conv_in)) => conv_fixed = conv_in

\* C19: for a raw sample of the signed 32-bit range, the test of
\* detect_spikes on to_float(raw) agrees with abs(raw) > 0x00050000.
C19_TestsAgree ==
    (pc \in {"to_fixed", "done"} /\ InSignedRange(conv_in)) =>
        (AboveThreshold(conv_float)
            <=> NumGt(NumAbs(conv_in), NumFromInt(327680)))

\* the unsigned 32-bit pattern of a signed 32-bit integer
Unsigned32(v) == IF v < 0 THEN NumAdd(NumFromInt(v), Two32) ELSE NumFromInt(v)

\* the call of load_eeg_mem_file read a file that write_mem_file wrote
WrittenFile == mem_samples # <<>> \/ mem_file = <<>>

\* the line is 8 upper-case hexadecimal digits
EightUpperHex(line) ==
    /\ Len(line) = 8
    /\ \A k \in 1..8 : \E d \in 1..16 : HexChars[d] = line[k]

C14_ReaderSigned ==
    (/\ pc = "done"
     /\ mem_reader = "reference_model"
     /\ \A k \in 1..Len(mem_file) : Len(mem_file[k]) = 8) =>
        /\ Len(mem_result) = Len(mem_file)
        /\ \A k \in 1..Len(mem_result) :
              NumScale(mem_result[k], 2) = Signed32(HexParse(mem_file[k]))

\* a line that is not empty and not hexadecimal
Malformed(line) == line # <<>> /\ \E k \in 1..Len(line) : ~IsHexChar(line[k])

\* C20: no load_eeg_mem_file returns a list for a file with a malformed line,
\* wherever the line is.
C20_MalformedRaises ==
    pc = "done" => \A k \in 1..Len(mem_file) : ~Malformed(mem_file[k])

\* The statement of C15: the difference equation in Q16.16, on raw samples.
\* One term, the product by the fixed-point mult, 0 before the sequence.
FixedTap(coeff, xs, m, k) ==
    IF k <= m THEN NumFromInt(mult(NumToInt(coeff[k + 1]), xs[m - k + 1]))
    ELSE NumZero

\* y[m], the sum truncated to 32 bits
FixedFilterSample(x, y, m) ==
    NumToInt(Low32Signed(NumSub(
        NumAdd(FixedTap(b_coeff, x, m, 0), NumAdd(FixedTap(b_coeff, x, m, 1),
            NumAdd(FixedTap(b_coeff, x, m, 2), NumAdd(FixedTap(b_coeff, x, m, 3),
                FixedTap(b_coeff, x, m, 4))))),
        NumAdd(FixedTap(a_coeff, y, m, 1), NumAdd(FixedTap(a_coeff, y, m, 2),
            NumAdd(FixedTap(a_coeff, y, m, 3), FixedTap(a_coeff, y, m, 4)))))))

RECURSIVE FixedFilterFrom(_, _)
FixedFilterFrom(x, y) ==
    IF Len(y) >= Len(x) THEN y
    ELSE FixedFilterFrom(x, Append(y, FixedFilterSample(x, y, Len(y))))

\* the raw Q16.16 integers of the samples of process's argument
RawInput == [k \in 1..Len(input_data) |-> NumToInt(NumScale(input_data[k], 2))]

\* C15: the output of filter_signal is, sample by sample, the fixed-point
\* difference equation of the input, from a zero history.
C15_FixedPointFilter ==
    pc \in {"detect", "compress", "stats", "done"} =>
        LET y == FixedFilterFrom(RawInput, <<>>)
        IN  filtered = [k \in 1..Len(input_data) |-> Q(y[k])]

\* C16: the statistics process returns are the number of samples of its
\* argument, the number of packets, the number of true flags, and the
\* packets per sample times 100.
C16_Stats ==
    pc = "done" =>
        /\ stats.input_samples = Len(input_data)
        /\ stats.output_packets = Len(compressed)
        /\ stats.output_packets = Len(packet_types)
        /\ stats.spike_count = Cardinality({k \in 1..Len(spikes) : spikes[k]})
        /\ Len(input_data) > 0 =>
              stats.compression_ratio.num * stats.input_samples
                  = stats.output_packets * 100 * stats.compression_ratio.den

\* a call on 40 samples that returned 39 packets, one of them a Spike
C16_Witness ==
    /\ pc = "done"
    /\ stats.input_samples = 40
    /\ stats.output_packets = 39
    /\ stats.spike_count = 1
    /\ stats.compression_ratio.num = 3900

\* C17: process on the empty input returns: nothing filtered, no flag, no
\* packet (the final emit adds none), spike_count 0, compression_ratio 0.
C17_EmptyInput ==
    /\ (input_data = <<>> /\ pc \in {"detect", "compress", "stats", "done"}) =>
          filtered = <<>> /\ spikes = <<>>
    /\ (input_data = <<>> /\ pc \in {"stats", "done"}) =>
          compressed = <<>> /\ packet_types = <<>>
    /\ (input_data = <<>> /\ pc = "done") =>
          /\ stats.spike_count = 0
          /\ stats.compression_ratio.num = 0
          /\ stats.output_packets = 0

\* process has returned for the empty input
C17_Witness == pc = "done" /\ input_data = <<>> /\ stats.input_samples = 0

NewValue ==
    IF Len(tail_data') > Len(tail_data) THEN tail_data'[Len(tail_data')]
    ELSE head_value'

NewFlag ==
    IF Len(tail_data') > Len(tail_data) THEN tail_spikes'[Len(tail_spikes')]
    ELSE FALSE

\* C22: a flagged sample makes the encoder emit RunLength(run_count,
\* run_value) when a run is open, then Spike(sample), in that order; the run
\* is closed and prev_value is the sample. The unflagged sample after it is
\* compared with the flagged one.
C22_SpikeClosesRun ==
    /\ [][(i' = i + 1 /\ NewFlag) =>
            /\ compressed' =
                  (IF in_run THEN Append(compressed, RLE(run_count, run_value))
                   ELSE compressed) \o <<NewValue>>
            /\ packet_types' =
                  (IF in_run THEN Append(packet_types, 1) ELSE packet_types)
                      \o <<2>>
            /\ ~in_run'
            /\ prev_value' = NewValue]_vars
    /\ [][(i' = i + 1 /\ i >= 1 /\ Flag(i) /\ ~NewFlag) =>
            LET d == NumSub(NewValue, Data(i))
            IN  IF NumLt(NumAbs(d), rle_threshold)
                THEN compressed' = compressed /\ in_run' /\ run_count' = 1
                ELSE /\ compressed' = Append(compressed, d)
                     /\ packet_types' = Append(packet_types, 0)]_vars

\* a run of several samples closed by a Spike, and a Delta after the Spike
C22_Witness ==
    \E k \in 1..(Len(packet_types) - 2) :
        /\ packet_types[k] = 1
        /\ compressed[k].count > 1
        /\ packet_types[k + 1] = 2
        /\ packet_types[k + 2] = 0

\* C23: an unflagged sample is emitted as a Delta exactly when
\* abs(sample - prev_value) >= rle_threshold, equality included; an open run
\* is emitted first and closed, then Delta(delta), and prev_value is the sample.
C23_DeltaIffOutside ==
    [][(i' = i + 1 /\ ~NewFlag) =>
          LET d == NumSub(NewValue, prev_value)
          IN  IF ~NumLt(NumAbs(d), rle_threshold)
              THEN /\ compressed' =
                         (IF in_run
                          THEN Append(compressed, RLE(run_count, run_value))
                          ELSE compressed) \o <<d>>
                   /\ packet_types' =
                         (IF in_run THEN Append(packet_types, 1)
                          ELSE packet_types) \o <<0>>
                   /\ ~in_run'
                   /\ prev_value' = NewValue
              ELSE packet_types' \in {packet_types, Append(packet_types, 1)}]_vars

\* a run closed by a Delta whose magnitude is exactly rle_threshold
C23_Witness ==
    \E k \in 1..(Len(packet_types) - 1) :
        /\ packet_types[k] = 1
        /\ packet_types[k + 1] = 0
        /\ NumAbs(compressed[k + 1]) = rle_threshold

\* the last packet is a RunLength of 255 and no sample has been read since
JustForced ==
    /\ ~in_run
    /\ Len(packet_types) > 0
    /\ packet_types[Len(packet_types)] = 1
    /\ compressed[Len(compressed)].count = 255

\* C25: the sample that brings run_count to 255 makes the encoder emit
\* RunLength(255, run_value), close the run, reset the count and set
\* prev_value to run_value; the next unflagged sample is compared with that
\* run_value and, when near it, opens a run of count 1.
C25_ForcedEmitAt255 ==
    /\ [][(/\ i' = i + 1
           /\ in_run
           /\ run_count = 254
           /\ ~NewFlag
           /\ NumLt(NumAbs(NumSub(NewValue, prev_value)), rle_threshold)) =>
            /\ compressed' = Append(compressed, RLE(255, run_value))
            /\ packet_types' = Append(packet_types, 1)
            /\ ~in_run'
            /\ run_count' = 0
            /\ prev_value' = run_value]_vars
    /\ [][(i' = i + 1 /\ JustForced /\ ~NewFlag) =>
            LET d == NumSub(NewValue, compressed[Len(compressed)].value)
            IN  IF NumLt(NumAbs(d), rle_threshold)
                THEN /\ compressed' = compressed
                     /\ in_run'
                     /\ run_count' = 1
                     /\ run_value' = NewValue
                ELSE compressed' = Append(compressed, d)]_vars

\* a run forced out at 255 whose value is not the earlier prev_value 0, and
\* the run of count 1 the next sample opened
C25_Witness ==
    /\ packet_types = <<1>>
    /\ compressed[1].count = 255
    /\ compressed[1].value # NumZero
    /\ prev_value = compressed[1].value
    /\ in_run
    /\ run_count = 1

\* the reference value established by the packet before the last one of
\* compressed', after a step that read sample i + 1: 0 when there is none, the
\* value of a RunLength, the sample of a Spike, the sample a Delta encoded
\* (the one read by the step before)
ReferenceBeforeLast ==
    LET L == Len(compressed') - 1
    IN  IF L = 0 THEN NumZero
        ELSE IF packet_types'[L] = 1 THEN compressed'[L].value
        ELSE IF packet_types'[L] = 2 THEN compressed'[L]
        ELSE Data(i)

\* C24: the value of every Delta packet is the sample it encodes minus the
\* reference value established by the packet emitted just before it, or
\* minus 0 when it is the first packet.
C24_DeltaAgainstReference ==
    [][(/\ i' = i + 1
        /\ Len(packet_types') > Len(packet_types)
        /\ packet_types'[Len(packet_types')] = 0) =>
          compressed'[Len(compressed')] = NumSub(NewValue, ReferenceBeforeLast)]_vars

\* C26: every sample counted in a RunLength packet differs from the packet's
\* run_value by less than rle_threshold (a sample is counted in a run when
\* its step emits neither a Delta nor a Spike).
C26_RunSamplesNearValue ==
    [][(i' = i + 1 /\ packet_types' \in {packet_types, Append(packet_types, 1)}) =>
          NumLt(NumAbs(NumSub(NewValue, run_value')), rle_threshold)]_vars

DeltaPackets == PickFrom(compressed, packet_types, 0, 1)

\* C28: after the final emit, the counts of the RunLength packets plus the
\* number of Delta packets plus the number of Spike packets is the number of
\* samples of the input.
C28_Conservation ==
    pc = "done" =>
        CountSumFrom(RunPackets, 1) + Len(DeltaPackets) + Len(SpikePackets)
            = DataLen

\* a finished call with packets of the three kinds, one a run of several
\* samples
C28_Witness ==
    /\ pc = "done"
    /\ Len(DeltaPackets) > 0
    /\ Len(SpikePackets) > 0
    /\ \E k \in 1..Len(RunPackets) : RunPackets[k].count > 1

\* C29: there are never more packets than samples read (so that
\* compression_ratio <= 100 for a non-empty input), and one sample adds at
\* most two packets.
C29_PacketsWithinSamples ==
    /\ [](pc = "compress" => Len(compressed) + (IF in_run THEN 1 ELSE 0) <= i)
    /\ [](pc = "done" => Len(compressed) * 100 <= 100 * DataLen)
    /\ [][i' = i + 1 => Len(compressed') <= Len(compressed) + 2]_vars

\* a finished call with as many packets as samples, one sample having added
\* a RunLength and a Delta or Spike
C29_Witness ==
    /\ pc = "done"
    /\ Len(compressed) = DataLen
    /\ \E k \in 1..(Len(packet_types) - 1) :
          packet_types[k] = 1 /\ packet_types[k + 1] \in {0, 2}

\* C30: a RunLength packet immediately followed by a RunLength packet has
\* count 255.
C30_AdjacentRunsAreFull ==
    \A k \in 1..(Len(packet_types) - 1) :
        (packet_types[k] = 1 /\ packet_types[k + 1] = 1) =>
            compressed[k].count = 255

\* two adjacent RunLength packets, after a run that a Delta or Spike closed
C30_Witness ==
    \E k \in 2..(Len(packet_types) - 1) :
        /\ packet_types[k] = 1
        /\ packet_types[k + 1] = 1
        /\ packet_types[k - 1] \in {0, 2}

\* C27: the samples at the indices below 32 start no refractory countdown,
\* so that a sample above the threshold at index 32 is flagged whatever the
\* first 32 samples were.
C27_WarmupLeavesDetector ==
    /\ (pc = "detect" /\ i <= 32) => refractory_counter = 0
    /\ (n > 32 /\ i > 32 /\ AboveThreshold(DetData(32))) => spikes[32 + 1]

\* the first 32 samples above the threshold, and the sample at index 32
\* flagged
C27_Witness ==
    /\ pc = "done"
    /\ n > 32
    /\ AboveThreshold(warm_value)
    /\ AboveThreshold(DetData(32))
    /\ spikes[32 + 1]
    /\ \A k \in 0..31 : ~spikes[k + 1]

\* ------------------------------------------- regression: _run_simulations
\* the default test list of _get_test_list
TestNames == {"random_test", "eeg_test", "spike_test"}

\* the order of the test names as Python compares strings
NameRank(name) ==
    CASE name = "eeg_test" -> 1
      [] name = "random_test" -> 2
      [] name = "simple_test" -> 3
      [] name = "spike_test" -> 4

\* the statuses run_test returns
Statuses == {"PASSED", "FAILED", "TIMEOUT", "ERROR"}

failed_withSkipped(result) ==
    result.status \in {"FAILED", "ERROR", "TIMEOUT", "SKIPPED"}

\* SimulationResult.failed
failed(result) == result.status \in {"FAILED", "ERROR", "TIMEOUT"}

SimulationResult(test_name, status, exit_code) ==
    [test_name |-> test_name, status |-> status, exit_code |-> exit_code]

\* what run_test returns, one outcome for each status: the status and the
\* exit code
RunTestOutcomes ==
    {[status |-> "PASSED", exit_code |-> 0], [status |-> "FAILED", exit_code |-> 1],
     [status |-> "TIMEOUT", exit_code |-> -1], [status |-> "ERROR", exit_code |-> -1]}

\* sorted_part with result put after the last element whose name is not
\* greater
RECURSIVE InsertByName(_, _)
InsertByName(sorted_part, result) ==
    IF sorted_part = <<>> THEN <<result>>
    ELSE IF NameRank(result.test_name) < NameRank(Head(sorted_part).test_name)
    THEN <<result>> \o sorted_part
    ELSE <<Head(sorted_part)>> \o InsertByName(Tail(sorted_part), result)

SortByName_unsorted(rs) == rs

\* results.sort(key=lambda x: x.test_name), a stable sort
RECURSIVE SortByName(_)
SortByName(rs) ==
    IF rs = <<>> THEN <<>>
    ELSE InsertByName(SortByName(SubSeq(rs, 1, Len(rs) - 1)), rs[Len(rs)])

\* the branch _run_simulations takes
Branch ==
    IF simple_testbench THEN "simple"
    ELSE IF parallel /\ Len(test_list) > 1 THEN "parallel"
    ELSE "sequential"

MaxTests == 3

\* the values of max_workers: fewer workers than tests, and the default 4
WorkerCounts == {1, 2, 4}

RegInit ==
    /\ pc = "run_simulations"
    /\ test_list \in SeqsUpTo(TestNames, MaxTests)
    /\ parallel \in BOOLEAN
    /\ stop_on_error \in BOOLEAN
    /\ simple_testbench \in BOOLEAN
    /\ max_workers \in WorkerCounts
    /\ started = <<>>
    /\ running = {}
    /\ results = <<>>
    /\ phase = <<>>
    /\ summary = NoSummary
    /\ i = 0
    /\ EncoderIdle
    /\ DetectorIdle
    /\ FixedPointIdle
    /\ PipelineIdle
    /\ MemFileIdle
    /\ SimulationIdle

RegFrame ==
    UNCHANGED <<test_list, parallel, max_workers, stop_on_error, simple_testbench,
                summary, input, encoder, detector, fixedpoint, pipeline, memfile,
                simulation>>

\* the simple testbench: run_test("simple_test") is called
SimpleStart ==
    /\ pc = "run_simulations"
    /\ Branch = "simple"
    /\ started = <<>>
    /\ started' = <<"simple_test">>
    /\ running' = {1}
    /\ phase' = <<"simulating">>
    /\ UNCHANGED <<pc, i, results>>
    /\ RegFrame

\* it returns, and `return [result]`
SimpleReturn ==
    /\ pc = "run_simulations"
    /\ Branch = "simple"
    /\ running = {1}
    /\ \E outcome \in RunTestOutcomes :
          results' = <<SimulationResult(started[1], outcome.status, outcome.exit_code)>>
    /\ running' = {}
    /\ phase' = <<"returned">>
    /\ pc' = "done"
    /\ UNCHANGED <<i, started>>
    /\ RegFrame

\* _is_questa_running, for the simulators this runner has launched
QuestaRunning == \E k \in 1..Len(phase) : phase[k] = "simulating"

\* run_tests_parallel: every test is submitted to the executor, and a free
\* worker takes the next one and calls run_test
ParallelStart ==
    /\ pc = "run_simulations"
    /\ Branch = "parallel"
    /\ Len(started) < Len(test_list)
    /\ Cardinality(running) < max_workers
    /\ started' = Append(started, test_list[Len(started) + 1])
    /\ running' = running \cup {Len(started) + 1}
    /\ phase' = Append(phase, "preflight")
    /\ UNCHANGED <<pc, i, results>>
    /\ RegFrame

\* run_test, lines 204-207: the worker looks whether a Questa is running
PreflightCheck ==
    /\ pc = "run_simulations"
    /\ Branch = "parallel"
    /\ \E k \in running :
          /\ phase[k] = "preflight"
          /\ phase' = [phase EXCEPT ![k] = IF QuestaRunning THEN "waiting" ELSE "clear"]
    /\ UNCHANGED <<pc, i, started, running, results>>
    /\ RegFrame

\* _wait_for_questa_close finds no Questa any more and returns True
WaitForCloseSucceeds ==
    /\ pc = "run_simulations"
    /\ Branch = "parallel"
    /\ ~QuestaRunning
    /\ \E k \in running :
          /\ phase[k] = "waiting"
          /\ phase' = [phase EXCEPT ![k] = "clear"]
    /\ UNCHANGED <<pc, i, started, running, results>>
    /\ RegFrame

\* one completed call handed to `results.append` by as_completed
Completed(k, status, exit_code, how) ==
    /\ results' = Append(results, SimulationResult(started[k], status, exit_code))
    /\ running' = running \ {k}
    /\ phase' = [phase EXCEPT ![k] = how]

\* _wait_for_questa_close has seen a Questa for 30 s and returns False:
\* run_test returns ERROR without launching
WaitForCloseTimesOut ==
    /\ pc = "run_simulations"
    /\ Branch = "parallel"
    /\ QuestaRunning
    /\ \E k \in running :
          /\ phase[k] = "waiting"
          /\ Completed(k, "ERROR", -1, "returned")
    /\ UNCHANGED <<pc, i, started>>
    /\ RegFrame

\* _execute_with_timeout: the simulator is launched
Launch ==
    /\ pc = "run_simulations"
    /\ Branch = "parallel"
    /\ \E k \in running :
          /\ phase[k] = "clear"
          /\ phase' = [phase EXCEPT ![k] = "simulating"]
    /\ UNCHANGED <<pc, i, started, running, results>>
    /\ RegFrame

\* the simulator has ended and run_test returns
ParallelFinish ==
    /\ pc = "run_simulations"
    /\ Branch = "parallel"
    /\ \E k \in running, outcome \in RunTestOutcomes :
          /\ phase[k] = "simulating"
          /\ Completed(k, outcome.status, outcome.exit_code, "returned")
    /\ UNCHANGED <<pc, i, started>>
    /\ RegFrame

\* a call raises: `except Exception` appends a result with status ERROR and
\* exit_code -1 for the test
ParallelRaise ==
    /\ pc = "run_simulations"
    /\ Branch = "parallel"
    /\ \E k \in running : Completed(k, "ERROR", -1, "raised")
    /\ UNCHANGED <<pc, i, started>>
    /\ RegFrame

\* every future is done: the results are sorted by name and returned
ParallelReturn ==
    /\ pc = "run_simulations"
    /\ Branch = "parallel"
    /\ Len(started) = Len(test_list)
    /\ running = {}
    /\ results' = SortByName(results)
    /\ pc' = "done"
    /\ UNCHANGED <<i, started, running, phase>>
    /\ RegFrame

\* `for test_name in test_list`: run_test(test_name) is called
SequentialStart ==
    /\ pc = "run_simulations"
    /\ Branch = "sequential"
    /\ running = {}
    /\ i < Len(test_list)
    /\ started' = Append(started, test_list[i + 1])
    /\ running' = {Len(started) + 1}
    /\ phase' = Append(phase, "simulating")
    /\ UNCHANGED <<pc, i, results>>
    /\ RegFrame

\* it returns: the result is appended, and the loop is left when
\* stop_on_error is set and the result failed
SequentialFinish ==
    /\ pc = "run_simulations"
    /\ Branch = "sequential"
    /\ running # {}
    /\ \E outcome \in RunTestOutcomes :
          LET result == SimulationResult(test_list[i + 1], outcome.status,
                                         outcome.exit_code)
          IN  /\ results' = Append(results, result)
              /\ pc' = IF stop_on_error /\ failed(result) THEN "done" ELSE pc
    /\ running' = {}
    /\ phase' = [phase EXCEPT ![Len(phase)] = "returned"]
    /\ i' = i + 1
    /\ UNCHANGED started
    /\ RegFrame

\* the loop is exhausted: `return results`
SequentialReturn ==
    /\ pc = "run_simulations"
    /\ Branch = "sequential"
    /\ running = {}
    /\ i >= Len(test_list)
    /\ pc' = "done"
    /\ UNCHANGED <<i, started, running, results, phase>>
    /\ RegFrame

RegNext ==
    \/ SimpleStart
    \/ SimpleReturn
    \/ ParallelStart
    \/ PreflightCheck
    \/ WaitForCloseSucceeds
    \/ WaitForCloseTimesOut
    \/ Launch
    \/ ParallelFinish
    \/ ParallelRaise
    \/ ParallelReturn
    \/ SequentialStart
    \/ SequentialFinish
    \/ SequentialReturn

SpecReg == RegInit /\ [][RegNext]_vars

\* some call of run_test has returned a failing result
SomeFailed == \E k \in 1..Len(results) : failed(results[k])

\* results is the tests of test_list in order, up to and including the
\* first failing one (all of them when none fails)
UpToFirstFailing ==
    \E m \in 0..Len(test_list) :
        /\ Len(results) = m
        /\ \A k \in 1..m : results[k].test_name = test_list[k]
        /\ \A k \in 1..(m - 1) : ~failed(results[k])
        /\ m < Len(test_list) => (m > 0 /\ failed(results[m]))

\* C21: when stop_on_error is set, no test is started after a test has
\* finished with status FAILED, ERROR or TIMEOUT, and the results returned
\* are the tests in list order up to and including the first failing one.
C21_StopsOnFirstFailure ==
    /\ [][(stop_on_error /\ SomeFailed) => started' = started]_vars
    /\ []((pc = "done" /\ stop_on_error) => UpToFirstFailing)

\* ------------------------------------- process_eeg: to_fixed_point, then
\* write_mem_file
Int64Max == NumSub(NumScale(NumFromInt(128), 7), NumFromInt(1))

Int64Min == NumNeg(NumScale(NumFromInt(128), 7))

\* .astype(np.int64) of a float that holds an integer: the integer when it
\* is an int64; otherwise the C conversion is undefined, and gives the
\* smallest int64 where the processor returns its "indefinite" integer and
\* the nearest int64 where the conversion saturates
astype_int64(v) ==
    IF ~NumLt(v, Int64Min) /\ ~NumGt(v, Int64Max) THEN {v}
    ELSE IF v.neg THEN {Int64Min}
    ELSE {Int64Min, Int64Max}

\* np.clip(fixed_data, min_val, max_val) of one element
clip(v, min_val, max_val) ==
    IF NumLt(v, min_val) THEN min_val
    ELSE IF NumGt(v, max_val) THEN max_val
    ELSE v

\* np.round(data * scale_factor) of one element, scale_factor = 1 << 16
RoundScaled(x) == RoundHalfEven(NumScale(x, 2))

\* a number of the signed 32-bit range as an integer
Int32Value(v) == IF v = Int32Min THEN -2147483647 - 1 ELSE NumToInt(v)

\* the values to_fixed_point can return for one element
to_fixed_point(x) ==
    {Int32Value(clip(v, Int32Min, Int32Max)) : v \in astype_int64(RoundScaled(x))}

\* Elements of the data: halves and other fractions of a unit of 2^-16, the
\* ends of the 32-bit range, values beyond it, and values at and beyond the
\* ends of the int64 range once scaled
EegSamples ==
    {NumZero,
     NumScale(NumFromInt(128), -3), NumScale(NumFromInt(-128), -3),
     NumScale(NumFromInt(384), -3), NumScale(NumFromInt(200), -3),
     NumScale(NumFromInt(-4986), -3),
     NumFromInt(32767), NumFromInt(32768), NumFromInt(-32768),
     NumFromInt(-40000),
     NumScale(NumFromInt(128), 5), NumScale(NumFromInt(-128), 5),
     NumScale(NumFromInt(-129), 5)}

MaxEeg == 2

EegInit ==
    /\ pc = "to_fixed_point"
    /\ single_channel_data \in SeqsUpTo(EegSamples, MaxEeg)
    /\ mem_samples = <<>>
    /\ mem_file = <<>>
    /\ mem_reader = "none"
    /\ mem_data = <<>>
    /\ mem_result = <<>>
    /\ i = 0
    /\ FixedPointIdle
    /\ EncoderIdle
    /\ DetectorIdle
    /\ PipelineIdle
    /\ RegressionIdle
    /\ SimulationIdle

\* to_fixed_point, element i of the arrays
ToFixedPointElement ==
    /\ pc = "to_fixed_point"
    /\ i < Len(single_channel_data)
    /\ \E fixed \in to_fixed_point(single_channel_data[i + 1]) :
          mem_samples' = Append(mem_samples, fixed)
    /\ i' = i + 1
    /\ UNCHANGED <<pc, single_channel_data, mem_file, mem_reader, mem_data,
                   mem_result, input, encoder, detector, fixedpoint, pipeline,
                   regression, simulation>>

\* `return fixed_data`, and main hands it to write_mem_file
ToFixedPointReturn ==
    /\ pc = "to_fixed_point"
    /\ i >= Len(single_channel_data)
    /\ pc' = "write"
    /\ i' = 0
    /\ UNCHANGED <<input, encoder, detector, fixedpoint, pipeline, memfile,
                   regression, simulation>>

EegNext == ToFixedPointElement \/ ToFixedPointReturn \/ WriteLine \/ WriteReturn

SpecEeg == EegInit /\ [][EegNext]_vars

\* round(x * 65536) clamped into the signed 32-bit range
SaturatedFixed(x) == Int32Value(clip(RoundScaled(x), Int32Min, Int32Max))

\* C31: to_fixed_point returns, for every element x, round(x * 65536)
\* clamped into [-2^31, 2^31 - 1], and the 8 hexadecimal digits written for
\* it are its 32-bit pattern.
C31_ToFixedPointSaturates ==
    /\ \A k \in 1..Len(mem_samples) :
          mem_samples[k] = SaturatedFixed(single_channel_data[k])
    /\ (single_channel_data # <<>>) =>
          \A k \in 1..Len(mem_file) :
              HexParse(mem_file[k]) = Unsigned32(mem_samples[k])

\* the values written beside the coefficients, in millionths
b_documented == <<3435, 0, -6870, 0, 3435>>

a_documented == <<1000000, -2609375, 2696289, -1658203, 239258>>

\* round(m * 65536 / 10^6) for m >= 0, as m * 1024 / 15625 on the quotient
\* and the remainder of m by 15625 (15625 is odd: there are no ties)
FixedOfMillionthsNat(m) ==
    (m \div 15625) * 1024 + (2 * (m % 15625) * 1024 + 15625) \div (2 * 15625)

\* to_fixed of m millionths
FixedOfMillionths(m) ==
    IF m < 0 THEN -FixedOfMillionthsNat(-m) ELSE FixedOfMillionthsNat(m)

\* C32: each filter coefficient is to_fixed of the value documented beside
\* it, and a[0] is 0x00010000.
C32_CoefficientsAsDocumented ==
    /\ \A k \in 1..5 : b_coeff[k] = NumFromInt(FixedOfMillionths(b_documented[k]))
    /\ \A k \in 1..5 : a_coeff[k] = NumFromInt(FixedOfMillionths(a_documented[k]))
    /\ a_coeff[1] = NumFromInt(65536)

\* the number of results for the test called name
ResultsFor(name) == Cardinality({k \in 1..Len(results) : results[k].test_name = name})

\* the number of entries of test_list that are name
EntriesFor(name) == Cardinality({k \in 1..Len(test_list) : test_list[k] = name})

\* C33: run_tests_parallel returns one result for each entry of test_list,
\* in the order of the test names, whatever order the calls complete in; a
\* call that raises gives a result with status ERROR and exit_code -1 for
\* its test.
C33_OneResultPerTest ==
    /\ []((pc = "done" /\ Branch = "parallel") =>
            /\ Len(results) = Len(test_list)
            /\ \A name \in TestNames : ResultsFor(name) = EntriesFor(name)
            /\ \A k \in 1..(Len(results) - 1) :
                  NameRank(results[k].test_name) <= NameRank(results[k + 1].test_name))
    /\ [][\A k \in 1..Len(phase) :
            (phase[k] # "raised" /\ phase'[k] = "raised") =>
                results' = Append(results, SimulationResult(started[k], "ERROR", -1))]_vars

\* three tests not in the order of their names: one call raised and one
\* returned PASSED
C33_Witness ==
    /\ pc = "done"
    /\ Branch = "parallel"
    /\ Len(test_list) = 3
    /\ NameRank(test_list[1]) > NameRank(test_list[2])
    /\ \E k \in 1..Len(phase) : phase[k] = "raised"
    /\ \E k \in 1..Len(results) : results[k].status = "PASSED"

\* C34: no two simulators launched by the runner are running at the same
\* time.
C34_OneQuestaAtATime ==
    Cardinality({k \in 1..Len(phase) : phase[k] = "simulating"}) <= 1

\* ------------------------------------------------- sim_runner: run_test
\* Lines of a transcript, one or two for each pattern of _parse_output and
\* lines that none of them matches
LicenseLines == {"# License checkout has been disallowed"}

\* TEST PASSED|UVM_INFO.*PASSED
PassLines ==
    {"# TEST PASSED", "# UVM_INFO @ 100: scoreboard PASSED",
     "# UVM_ERROR @ 100: TEST PASSED but compare FAILED"}

\* TEST FAILED|UVM_ERROR.*FAILED
FailLines ==
    {"# TEST FAILED", "# UVM_ERROR @ 100: check FAILED",
     "# UVM_ERROR @ 100: TEST PASSED but compare FAILED"}

\* Sent \d+ samples|Loaded \d+.*samples
SentLines == {"# Sent 800 samples"}

\* Delta packet|RLE packet|SPIKE detected|Literal packet
PacketLines == {"# RLE packet: count=3"}

\* Test Results|Compression ratio|Spikes detected
SummaryLines == {"# Compression ratio: 2.5"}

\* Simulation timeout|ERROR: Simulation timeout
TimeoutLines == {"# ERROR: Simulation timeout"}

\* `.` matches no newline: UVM_INFO on one line and PASSED on the next is no
\* pass marker
OtherLines == {"# Loading work.tb", "# UVM_INFO @ 0: run", "# PASSED"}

TranscriptLines ==
    LicenseLines \cup PassLines \cup FailLines \cup SentLines \cup PacketLines
        \cup SummaryLines \cup TimeoutLines \cup OtherLines

\* re.search(pattern, output), the pattern given by the lines it matches
Search(pattern, output) == \E k \in 1..Len(output) : output[k] \in pattern

has_processing(output) == Search(SentLines, output) \/ Search(SummaryLines, output)

has_simulation_output(output) == Search(PacketLines, output)

parse_output_passWins(output, status) ==
    IF Search(LicenseLines, output) THEN "ERROR"
    ELSE IF Search(PassLines, output) THEN "PASSED"
    ELSE IF Search(FailLines, output) THEN "FAILED"
    ELSE IF has_processing(output) \/ has_simulation_output(output) THEN "PASSED"
    ELSE status

\* _parse_output: result.status after the call, status being the one before
parse_output(output, status) ==
    IF Search(LicenseLines, output) THEN "ERROR"
    ELSE LET test_passed == Search(PassLines, output)
             test_failed == Search(FailLines, output)
             marked == IF test_failed THEN "FAILED"
                       ELSE IF test_passed THEN "PASSED"
                       ELSE status
         IN  IF ~test_passed /\ ~test_failed
                /\ (has_processing(output) \/ has_simulation_output(output))
             THEN "PASSED"
             ELSE marked

override_status_keepsParsed(status, rc) == status

\* run_test, lines 268-282: the status after the exit code is looked at
override_status(status, rc) ==
    IF status = "ERROR" /\ rc = 0 THEN status
    ELSE IF rc = 0 /\ status = "ERROR" THEN "PASSED"
    ELSE IF rc # 0 /\ status = "ERROR" THEN status
    ELSE IF rc # 0 THEN "FAILED"
    ELSE status

ReturnCodes == {0, 1, 2}

MaxOutLines == 2

TestInit ==
    /\ pc = "run_test"
    /\ SimulationIdle
    /\ i = 0
    /\ EncoderIdle
    /\ DetectorIdle
    /\ FixedPointIdle
    /\ PipelineIdle
    /\ MemFileIdle
    /\ RegressionIdle

TestFrame ==
    UNCHANGED <<i, input, encoder, detector, fixedpoint, pipeline, memfile, regression>>

\* the pre-flight checks: without the work library, or with a Questa that
\* does not close in 30 s, run_test returns ERROR with exit_code -1
Preflight ==
    /\ pc = "run_test"
    /\ \E work_lib_exists \in BOOLEAN, questa_running \in BOOLEAN, closes \in BOOLEAN :
          pc' = IF ~work_lib_exists \/ (questa_running /\ ~closes)
                THEN "done" ELSE "execute"
    /\ UNCHANGED simulation
    /\ TestFrame

\* the simulator runs: it exits with a return code and a transcript, or
\* communicate times out, or something raises
Execute ==
    /\ pc = "execute"
    /\ \/ \E rc \in ReturnCodes, output \in SeqsUpTo(TranscriptLines, MaxOutLines) :
             /\ process' = "exited"
             /\ returncode' = rc
             /\ result_exit_code' = rc
             /\ output_text' = output
             /\ pc' = "parse"
             /\ UNCHANGED result_status
       \/ /\ process' = "timeout"
          /\ result_status' = "TIMEOUT"
          /\ pc' = "done"
          /\ UNCHANGED <<returncode, result_exit_code, output_text>>
       \/ /\ process' = "raised"
          /\ result_status' = "ERROR"
          /\ pc' = "done"
          /\ UNCHANGED <<returncode, result_exit_code, output_text>>
    /\ TestFrame

\* self._parse_output(output_text, result)
ParseOutput ==
    /\ pc = "parse"
    /\ result_status' = parse_output(output_text, result_status)
    /\ pc' = "override"
    /\ UNCHANGED <<process, returncode, output_text, result_exit_code>>
    /\ TestFrame

\* lines 268-282, and `return result`
OverrideStatus ==
    /\ pc = "override"
    /\ result_status' = override_status(result_status, returncode)
    /\ pc' = "done"
    /\ UNCHANGED <<process, returncode, output_text, result_exit_code>>
    /\ TestFrame

TestNext == Preflight \/ Execute \/ ParseOutput \/ OverrideStatus

SpecTest == TestInit /\ [][TestNext]_vars

\* the transcript has none of the indications _parse_output looks for
NothingRecognised ==
    /\ ~Search(PassLines, output_text)
    /\ ~Search(FailLines, output_text)
    /\ ~has_processing(output_text)
    /\ ~has_simulation_output(output_text)

\* run_test has returned the result of a simulator that exited
Exited == pc = "done" /\ process = "exited"

\* C35: a simulation that exits with code 0 and whose output has no pass,
\* fail, processing or license-conflict indication is reported PASSED.
C35_CleanExitPasses ==
    (Exited /\ returncode = 0 /\ NothingRecognised
        /\ ~Search(LicenseLines, output_text)) => result_status = "PASSED"

C37_ParsePrecedence ==
    pc = "override" =>
        /\ Search(LicenseLines, output_text) => result_status = "ERROR"
        /\ (~Search(LicenseLines, output_text) /\ Search(FailLines, output_text))
              => result_status = "FAILED"
        /\ (/\ ~Search(LicenseLines, output_text)
            /\ ~Search(PassLines, output_text)
            /\ ~Search(FailLines, output_text)
            /\ (has_processing(output_text) \/ has_simulation_output(output_text)))
              => result_status = "PASSED"

\* both markers and evidence of processing: FAILED
C37_Witness ==
    /\ pc = "override"
    /\ Search(PassLines, output_text)
    /\ Search(FailLines, output_text)
    /\ has_processing(output_text)
    /\ result_status = "FAILED"

\* ------------------------------------ regression: the summary of run
\* TestStatus
TestStatus == {"PASSED", "FAILED", "TIMEOUT", "ERROR", "SKIPPED"}

\* SimulationResult.passed
passed(result) == result.status = "PASSED"

\* sum(1 for r in rs if ...), for the results of rs with a status of which
CountStatus(rs, which) == Cardinality({k \in 1..Len(rs) : rs[k].status \in which})

\* sum(1 for r in results if r.passed)
CountPassed(rs) == Cardinality({k \in 1..Len(rs) : passed(rs[k])})

\* sum(1 for r in results if r.failed)
CountFailed(rs) == Cardinality({k \in 1..Len(rs) : failed(rs[k])})

\* RegressionSummary.pass_rate, as a fraction
pass_rate(passed_count, total_tests) ==
    IF total_tests = 0 THEN [num |-> 0, den |-> 1]
    ELSE [num |-> passed_count * 100, den |-> total_tests]

\* RegressionSummary(total_tests=len(results), passed=..., failed=...,
\* skipped=...) with its pass_rate
RegressionSummary(rs) ==
    [total_tests |-> Len(rs),
     passed      |-> CountPassed(rs),
     failed      |-> CountFailed(rs),
     skipped     |-> CountStatus(rs, {"SKIPPED"}),
     pass_rate   |-> pass_rate(CountPassed(rs), Len(rs))]

MaxResults == 3

\* results of every status, with the exit code of its outcome of run_test
SummaryResults ==
    {SimulationResult("random_test", o.status, o.exit_code) : o \in RunTestOutcomes}
        \cup {SimulationResult("eeg_test", "SKIPPED", 0)}

SumInit ==
    /\ pc = "summary"
    /\ results \in SeqsUpTo(SummaryResults, MaxResults)
    /\ summary = NoSummary
    /\ test_list = <<>>
    /\ parallel = FALSE
    /\ max_workers = 1
    /\ stop_on_error = FALSE
    /\ simple_testbench = FALSE
    /\ started = <<>>
    /\ running = {}
    /\ phase = <<>>
    /\ i = 0
    /\ EncoderIdle
    /\ DetectorIdle
    /\ FixedPointIdle
    /\ PipelineIdle
    /\ MemFileIdle
    /\ SimulationIdle

\* RegressionOrchestrator.run, step 4
GenerateSummary ==
    /\ pc = "summary"
    /\ summary' = RegressionSummary(results)
    /\ pc' = "done"
    /\ UNCHANGED <<test_list, parallel, max_workers, stop_on_error, simple_testbench,
                   started, running, results, phase>>
    /\ UNCHANGED <<i, input, encoder, detector, fixedpoint, pipeline, memfile,
                   simulation>>

SumNext == GenerateSummary

SpecSum == SumInit /\ [][SumNext]_vars

\* C38: no result is both passed and failed, a SKIPPED one is neither, the
\* summary has passed + failed + skipped = total_tests, and pass_rate is
\* passed / total_tests * 100, or 0 when there is no test.
C38_SummaryCounts ==
    /\ \A k \in 1..Len(results) :
          /\ ~(passed(results[k]) /\ failed(results[k]))
          /\ passed(results[k]) <=> results[k].status = "PASSED"
          /\ failed(results[k]) <=> results[k].status \in {"FAILED", "ERROR", "TIMEOUT"}
    /\ pc = "done" =>
          /\ summary.total_tests = Len(results)
          /\ summary.passed = CountStatus(results, {"PASSED"})
          /\ summary.failed = CountStatus(results, {"FAILED", "ERROR", "TIMEOUT"})
          /\ summary.passed + summary.failed + summary.skipped = summary.total_tests
          /\ IF summary.total_tests = 0
             THEN summary.pass_rate.num = 0
             ELSE summary.pass_rate.num * summary.total_tests
                      = summary.passed * 100 * summary.pass_rate.den

\* a summary of three results: one passed, one failed, one skipped
C38_Witness ==
    /\ pc = "done"
    /\ summary.total_tests = 3
    /\ summary.passed = 1
    /\ summary.failed = 1
    /\ summary.skipped = 1

====
